---------------------------- MODULE Spec2Model ----------------------------
(***************************************************************************)
(* Bit-precision value tracking (llvm/lib/Analysis/ValueTracking.cpp).     *)
(*                                                                         *)
(* The operand graph is a table of instructions `g`; an operand is a value *)
(* reference: a uniqued leaf (ConstantInt, Argument) or the index of an    *)
(* instruction of the table.  APInt values of width w are the naturals     *)
(* below 2^w.  ComputeMaskedBits and the queries built on it are recursive *)
(* operators over the table, written case by case from the source.         *)
(***************************************************************************)
EXTENDS Integers, Sequences, FiniteSets, TLC

VARIABLES
  g,      \* the instruction table of the operand graph
  root,   \* the value a query is asked about
  pc,     \* "build" while the graph grows, "ready" once a value is picked,
          \* "done" after the query
  fn,     \* the query that ran; in the call-chain machine, the function entered
  res,    \* the query's results, by start depth and mask
  kind,   \* call-chain machine: the kind of value the entered function is given
  depth,  \* call-chain machine: the Depth argument of the entered function
  nest,   \* call-chain machine: the number of calls nested so far
  path    \* call-chain machine: the number of values on the chain

vars == <<g, root, pc, fn, res, kind, depth, nest, path>>

(***************************************************************************)
(* Program constant and model bounds.                                      *)
(***************************************************************************)
MaxDepth == 6

\* Scalar width of the values under analysis (iN).
BitWidth == 4

\* Width of the narrow type that zext/sext extend from and trunc narrows to.
SrcBitWidth == 2

\* Number of instructions in an operand graph.
MaxInsts == 2

\* Number of instructions in a chain, the graphs grown beyond MaxInsts.
MaxChain == 3

\* Call-chain machine: the number of values on a path of the operand graph.
MaxPath == 30

\* Widest integer type of the bit-count intrinsic calls.
MaxCountWidth == 6

(***************************************************************************)
(* APInt arithmetic on naturals.                                           *)
(***************************************************************************)
Pow2(n) == 2 ^ n

AllOnesValue(w) == Pow2(w) - 1

MaxWidth == IF BitWidth > SrcBitWidth THEN BitWidth ELSE SrcBitWidth

RECURSIVE BitAndRec(_, _)
BitAndRec(a, b) ==
  IF a = 0 \/ b = 0 THEN 0
  ELSE (a % 2) * (b % 2) + 2 * BitAndRec(a \div 2, b \div 2)

TableWidth == IF MaxCountWidth > MaxWidth THEN MaxCountWidth ELSE MaxWidth

AndTab == [a \in 0..AllOnesValue(TableWidth) |->
             [b \in 0..AllOnesValue(TableWidth) |-> BitAndRec(a, b)]]

BAnd(a, b) == AndTab[a][b]
BOr(a, b) == a + b - BAnd(a, b)
BXor(a, b) == a + b - 2 * BAnd(a, b)
BNot(w, a) == AllOnesValue(w) - a

Min(a, b) == IF a < b THEN a ELSE b
Max(a, b) == IF a > b THEN a ELSE b

\* APInt::shl / APInt::lshr: a shift by the full width gives 0.
Shl(w, a, s) == IF s >= w THEN 0 ELSE (a * Pow2(s)) % Pow2(w)
LShr(w, a, s) == IF s >= w THEN 0 ELSE a \div Pow2(s)

TestBit(a, i) == (a \div Pow2(i)) % 2 = 1
getLowBitsSet(w, n) == Pow2(n) - 1
getHighBitsSet(w, n) == AllOnesValue(w) - (Pow2(w - n) - 1)
getSignBit(w) == Pow2(w - 1)
isNegative(w, a) == a >= Pow2(w - 1)
Trunc(a, w) == a % Pow2(w)

RECURSIVE ActiveBits(_)
ActiveBits(a) == IF a = 0 THEN 0 ELSE 1 + ActiveBits(a \div 2)

countLeadingZeros(w, a) == w - ActiveBits(a)
countLeadingOnes(w, a) == countLeadingZeros(w, BNot(w, a))

RECURSIVE countTrailingOnes(_)
countTrailingOnes(a) == IF a % 2 = 1 THEN 1 + countTrailingOnes(a \div 2) ELSE 0

RECURSIVE countTrailingZerosRec(_)
countTrailingZerosRec(a) == IF a % 2 = 0 THEN 1 + countTrailingZerosRec(a \div 2) ELSE 0
countTrailingZeros(w, a) == IF a = 0 THEN w ELSE countTrailingZerosRec(a)

RECURSIVE countPopulation(_)
countPopulation(a) == IF a = 0 THEN 0 ELSE (a % 2) + countPopulation(a \div 2)

isPowerOf2(a) == a > 0 /\ BAnd(a, a - 1) = 0

\* Log2_32: floor of the base-2 logarithm.
Log2_32(n) == ActiveBits(n) - 1

\* Two's complement reading of an APInt.
Signed(w, a) == IF a >= Pow2(w - 1) THEN a - Pow2(w) ELSE a
Unsigned(w, i) == i % Pow2(w)

\* APInt::abs.
APAbs(w, a) == IF isNegative(w, a) THEN Unsigned(w, 0 - Signed(w, a)) ELSE a

\* ConstantInt::getLimitedValue.
getLimitedValue(a, limit) == Min(a, limit)

(***************************************************************************)
(* Operand graph accessors.                                                *)
(***************************************************************************)
ConstantInt(w, k) == [t |-> "C", w |-> w, k |-> k]
Argument(w, k) == [t |-> "A", w |-> w, k |-> k]
Inst(w, i) == [t |-> "I", w |-> w, k |-> i]

isConstantInt(v) == v.t = "C"
isArgument(v) == v.t = "A"
isOperator(v) == v.t = "I"

Node(v) == g[v.k]
Opcode(v) == IF isOperator(v) THEN g[v.k].op ELSE "none"
getOperand(v, i) == g[v.k].ops[i + 1]
getNumOperands(v) == Len(g[v.k].ops)
hasNoSignedWrap(v) == "nsw" \in g[v.k].f
hasNoUnsignedWrap(v) == "nuw" \in g[v.k].f
isExact(v) == "exact" \in g[v.k].f
isZeroUndef(v) == "zero_undef" \in g[v.k].f

Known(z, o, ok) == [z |-> z, o |-> o, ok |-> ok]
Disjoint(r) == BAnd(r.z, r.o) = 0


(***************************************************************************)
(* ComputeMaskedBits: the per-operator transfer functions.  Each takes the *)
(* results of the recursive calls the case makes (records z, o, ok: the    *)
(* KnownZero and KnownOne bit sets and "no assertion has failed") and      *)
(* gives the case's result.                                                *)
(***************************************************************************)

\* ConstantInt: all bits are known.
\* ConstantCase with KnownZero left unmasked.
ConstantCaseUnmasked(w, c, Mask) ==
  LET KnownOne == BAnd(c, Mask)
  IN Known(BNot(w, KnownOne), KnownOne, TRUE)

ConstantCase(w, c, Mask) ==
  LET KnownOne == BAnd(c, Mask)
  IN Known(BAnd(BNot(w, KnownOne), Mask), KnownOne, TRUE)

\* Argument: a byval argument with an alignment has the trailing zeros of
\* the alignment written to KnownZero; nothing else is written, the bit sets
\* keep what the caller passed in.  Align is 0 for an argument that is not
\* byval or has no alignment.
ArgumentCase(w, Mask, Align, KnownZero, KnownOne) ==
  IF Align > 0
    THEN Known(BAnd(Mask, getLowBitsSet(w, countTrailingZeros(32, Align))), KnownOne, TRUE)
    ELSE Known(KnownZero, KnownOne, TRUE)

\* And: r1 is operand 1 under Mask, r0 is operand 0 under Mask & ~r1.z.
\* AndCase with the zero bits intersected as the one bits are.
AndCaseIntersect(r1, r0) ==
  Known(BAnd(r1.z, r0.z), BAnd(r1.o, r0.o),
        r1.ok /\ r0.ok /\ Disjoint(r1) /\ Disjoint(r0))

AndCase(r1, r0) ==
  Known(BOr(r1.z, r0.z), BAnd(r1.o, r0.o),
        r1.ok /\ r0.ok /\ Disjoint(r1) /\ Disjoint(r0))

\* Or: r1 is operand 1 under Mask, r0 is operand 0 under Mask & ~r1.o.
OrCase(r1, r0) ==
  Known(BAnd(r1.z, r0.z), BOr(r1.o, r0.o),
        r1.ok /\ r0.ok /\ Disjoint(r1) /\ Disjoint(r0))

\* XorCase with KnownZero overwritten before KnownOne is computed from it.
XorCaseOverwritten(r1, r0) ==
  LET KnownZeroOut == BOr(BAnd(r1.z, r0.z), BAnd(r1.o, r0.o))
  IN Known(KnownZeroOut,
           BOr(BAnd(KnownZeroOut, r0.o), BAnd(r1.o, r0.z)),
           r1.ok /\ r0.ok /\ Disjoint(r1) /\ Disjoint(r0))

XorCase(r1, r0) ==
  Known(BOr(BAnd(r1.z, r0.z), BAnd(r1.o, r0.o)),
        BOr(BAnd(r1.z, r0.o), BAnd(r1.o, r0.z)),
        r1.ok /\ r0.ok /\ Disjoint(r1) /\ Disjoint(r0))

\* Mul: r1, r0 are the operands' bits under the all-ones mask; the two
\* flags are the sign inferred from the no-signed-wrap flag.
MulCase(w, Mask, r1, r0, isKnownNonNegative, isKnownNegative) ==
  LET TrailZ == Min(countTrailingOnes(r1.z) + countTrailingOnes(r0.z), w)
      LeadZ == Min(Max(countLeadingOnes(w, r1.z) + countLeadingOnes(w, r0.z), w) - w, w)
      KZ == BAnd(BOr(getLowBitsSet(w, TrailZ), getHighBitsSet(w, LeadZ)), Mask)
      ok == r1.ok /\ r0.ok /\ Disjoint(r1) /\ Disjoint(r0)
  IN IF isKnownNonNegative
       THEN Known(BOr(KZ, getSignBit(w)), 0, ok)
     ELSE IF isKnownNegative /\ ~isNegative(w, KZ)
       THEN Known(KZ, getSignBit(w), ok)
     ELSE Known(KZ, 0, ok)

\* UDiv: r0 is the dividend and r1 the divisor under the all-ones mask.
UDivCase(w, Mask, r0, r1) ==
  LET LeadZ0 == countLeadingOnes(w, r0.z)
      RHSUnknownLeadingOnes == countLeadingZeros(w, r1.o)
      LeadZ == IF RHSUnknownLeadingOnes # w
                 THEN Min(w, LeadZ0 + w - RHSUnknownLeadingOnes - 1)
                 ELSE LeadZ0
  IN Known(BAnd(getHighBitsSet(w, LeadZ), Mask), 0, r0.ok /\ r1.ok)

\* Select: r2 is the false value, r1 the true value, both under Mask.
SelectCase(r2, r1) ==
  Known(BAnd(r2.z, r1.z), BAnd(r2.o, r1.o),
        r2.ok /\ r1.ok /\ Disjoint(r2) /\ Disjoint(r1))

\* ZExt / Trunc: r is the operand under the mask brought to the source width.
ZExtTruncCase(w, sw, r) ==
  LET z == Trunc(r.z, w)
      o == Trunc(r.o, w)
  IN Known(IF w > sw THEN BOr(z, getHighBitsSet(w, w - sw)) ELSE z, o, r.ok)

\* SExt: r is the operand under the truncated mask.
SExtCase(w, sw, r) ==
  LET ok == r.ok /\ Disjoint(r)
  IN IF TestBit(r.z, sw - 1)
       THEN Known(BOr(r.z, getHighBitsSet(w, w - sw)), r.o, ok)
     ELSE IF TestBit(r.o, sw - 1)
       THEN Known(r.z, BOr(r.o, getHighBitsSet(w, w - sw)), ok)
     ELSE Known(r.z, r.o, ok)

\* Shl by a constant: r is the operand under Mask >> ShiftAmt.
\* ShlCase without the low bits known zero.
ShlCaseNoLowBits(w, ShiftAmt, r) ==
  Known(Shl(w, r.z, ShiftAmt), Shl(w, r.o, ShiftAmt), r.ok /\ Disjoint(r))

ShlCase(w, ShiftAmt, r) ==
  Known(BOr(Shl(w, r.z, ShiftAmt), getLowBitsSet(w, ShiftAmt)),
        Shl(w, r.o, ShiftAmt), r.ok /\ Disjoint(r))

\* LShr by a constant: r is the operand under Mask << ShiftAmt.
LShrCase(w, ShiftAmt, r) ==
  Known(BOr(LShr(w, r.z, ShiftAmt), getHighBitsSet(w, ShiftAmt)),
        LShr(w, r.o, ShiftAmt), r.ok /\ Disjoint(r))

\* AShr by a constant (ShiftAmt <= w-1): r is the operand under Mask << ShiftAmt.
AShrCase(w, ShiftAmt, r) ==
  LET z == LShr(w, r.z, ShiftAmt)
      o == LShr(w, r.o, ShiftAmt)
      HighBits == getHighBitsSet(w, ShiftAmt)
      ok == r.ok /\ Disjoint(r)
  IN IF TestBit(z, w - ShiftAmt - 1) THEN Known(BOr(z, HighBits), o, ok)
     ELSE IF TestBit(o, w - ShiftAmt - 1) THEN Known(z, BOr(o, HighBits), ok)
     ELSE Known(z, o, ok)

\* Sub with a non-negative constant on the left: r2 is operand 1 under MaskV;
\* the result is the KnownZero the Add/Sub path starts from.
SubConstCase(w, Mask, c, r2) ==
  LET NLZ == countLeadingZeros(w, (c + 1) % Pow2(w))
      MaskV == getHighBitsSet(w, NLZ + 1)
  IN IF BAnd(r2.z, MaskV) = MaskV
       THEN BAnd(getHighBitsSet(w, countLeadingZeros(w, c)), Mask)
       ELSE 0

SubConstMask(w, c) ==
  getHighBitsSet(w, countLeadingZeros(w, (c + 1) % Pow2(w)) + 1)

\* Add / Sub: KZ0 is the KnownZero on entry to the shared path, L and R are
\* the operands under the low-bits mask.
AddSubCase(w, Mask, isAdd, nsw, KZ0, L, R) ==
  LET LHSKnownZeroOut == countTrailingOnes(L.z)
      RHSKnownZeroOut == countTrailingOnes(R.z)
      lowL == getLowBitsSet(w, LHSKnownZeroOut)
      lowR == getLowBitsSet(w, RHSKnownZeroOut)
      z1 == IF LHSKnownZeroOut > RHSKnownZeroOut
              THEN IF isAdd THEN BOr(KZ0, BAnd(R.z, lowL))
                   ELSE BOr(KZ0, getLowBitsSet(w, Min(LHSKnownZeroOut, RHSKnownZeroOut)))
              ELSE BOr(KZ0, BAnd(L.z, lowR))
      o1 == IF LHSKnownZeroOut > RHSKnownZeroOut
              THEN IF isAdd THEN BAnd(R.o, lowL) ELSE 0
              ELSE BAnd(L.o, lowR)
      solve == isNegative(w, Mask) /\ ~isNegative(w, z1) /\ ~isNegative(w, o1) /\ nsw
      ok == L.ok /\ R.ok /\ Disjoint(L) /\ Disjoint(R)
  IN IF solve /\ isAdd /\ isNegative(w, L.z) /\ isNegative(w, R.z)
       THEN Known(BOr(z1, getSignBit(w)), o1, ok)
     ELSE IF solve /\ isAdd /\ isNegative(w, L.o) /\ isNegative(w, R.o)
       THEN Known(z1, BOr(o1, getSignBit(w)), ok)
     ELSE IF solve /\ ~isAdd /\ isNegative(w, L.z) /\ isNegative(w, R.o)
       THEN Known(BOr(z1, getSignBit(w)), o1, ok)
     ELSE IF solve /\ ~isAdd /\ isNegative(w, L.o) /\ isNegative(w, R.z)
       THEN Known(z1, BOr(o1, getSignBit(w)), ok)
     ELSE Known(z1, o1, ok)

\* SRem by a constant whose absolute value RA is a power of two: r2 is the
\* dividend under LowBits | SignBit.
SRemPow2Case(w, Mask, RA, r2) ==
  LET LowBits == RA - 1
      HighPart == BNot(w, LowBits)
      z0 == BAnd(r2.z, LowBits)
      o0 == BAnd(r2.o, LowBits)
      z1 == IF TestBit(r2.z, w - 1) \/ BAnd(r2.z, LowBits) = LowBits
              THEN BOr(z0, HighPart) ELSE z0
      o1 == IF TestBit(r2.o, w - 1) /\ BAnd(r2.o, LowBits) # 0
              THEN BOr(o0, HighPart) ELSE o0
      z == BAnd(z1, Mask)
      o == BAnd(o1, Mask)
  IN Known(z, o, r2.ok /\ BAnd(z, o) = 0)

\* SRem, final step: k is the result so far, L the dividend under the sign
\* bit mask (queried only when the sign bit is asked for and not yet known
\* zero).
SRemSignCase(w, k, L) ==
  IF isNegative(w, L.z) THEN Known(BOr(k.z, L.z), k.o, k.ok /\ L.ok)
  ELSE Known(k.z, k.o, k.ok /\ L.ok)

\* URem by a power-of-two constant RA: the KnownZero handed to the recursive
\* call on the dividend, and that call's mask.
URemPow2KnownZeroIn(w, Mask, RA) == BAnd(BNot(w, RA - 1), Mask)
URemPow2Mask(Mask, RA) == BAnd(RA - 1, Mask)
URemPow2Case(r) == Known(r.z, r.o, r.ok /\ Disjoint(r))

\* URem, general divisor: r0, r1 are the operands under the all-ones mask.
URemCase(w, Mask, r0, r1) ==
  LET Leaders == Max(countLeadingOnes(w, r0.z), countLeadingOnes(w, r1.z))
  IN Known(BAnd(getHighBitsSet(w, Leaders), Mask), 0, r0.ok /\ r1.ok)

\* PHI recurrence: r2 is R under the all-ones mask, r3 is L under the low
\* bits that are known zero in R.
PHIRecurrenceMask(w, r2) == getLowBitsSet(w, countTrailingOnes(r2.z))
PHIRecurrenceCase(w, Mask, r2, r3) ==
  Known(BAnd(Mask, getLowBitsSet(w, Min(countTrailingOnes(r2.z),
                                         countTrailingOnes(r3.z)))),
        0, r2.ok /\ r3.ok)

\* The address of a global: the trailing zeros of its alignment, none when
\* the alignment is not given.
GlobalValueCase(w, Mask, Align) ==
  IF Align > 0 THEN Known(BAnd(Mask, getLowBitsSet(w, countTrailingZeros(32, Align))), 0, TRUE)
  ELSE Known(0, 0, TRUE)

\* The i-th operand of the GEP V indexes a struct.
isStructIndex(V, i) == i = 2 /\ "struct" \in g[V.k].f

\* GEP over array indices: rs holds the answers about the pointer and the
\* indices; an element has the size 1 when no layout gives another.
GEPCase(w, Mask, rs) ==
  LET TrailZ == CHOOSE n \in {countTrailingOnes(rs[i].z) : i \in 1..Len(rs)} :
                  \A i \in 1..Len(rs) : n <= countTrailingOnes(rs[i].z)
  IN Known(BAnd(getLowBitsSet(w, TrailZ), Mask), 0, \A i \in 1..Len(rs) : rs[i].ok)

\* ctlz / cttz / ctpop.
CtlzCttzCase(w, zeroUndef) ==
  LET LowBits == Log2_32(w) + 1 - (IF zeroUndef THEN 1 ELSE 0)
  IN Known(getHighBitsSet(w, w - LowBits), 0, TRUE)

CtpopCase(w) == Known(getHighBitsSet(w, w - (Log2_32(w) + 1)), 0, TRUE)


(***************************************************************************)
(* ComputeMaskedBits, ComputeSignBit, isPowerOfTwo, isKnownNonZero.        *)
(***************************************************************************)
Unknown == Known(0, 0, TRUE)

\* Pattern matchers (llvm/Support/PatternMatch.h as used by the queries).
m_One(v) == isConstantInt(v) /\ v.k = 1
m_SignBit(v) == isConstantInt(v) /\ v.k = getSignBit(v.w)
m_Shr(v) == Opcode(v) \in {"LShr", "AShr"}
m_IDiv(v) == Opcode(v) \in {"SDiv", "UDiv"}
\* m_Neg(m_Specific(y)): v is (sub 0, y).
m_NegOf(v, y) ==
  /\ Opcode(v) = "Sub"
  /\ isConstantInt(getOperand(v, 0)) /\ getOperand(v, 0).k = 0
  /\ getOperand(v, 1) = y

\* "Skip if every incoming value references to ourself."
hasConstantValueIsSelf(P) ==
  \A i \in 0..(getNumOperands(P) - 1) : getOperand(P, i) = P

\* The opcodes the PHI recurrence looks through.
isRecurrenceOpcode(op) == op \in {"Add", "Sub", "And", "Or", "Mul"}

(***************************************************************************)
(* Pointers and global variables.                                          *)
(***************************************************************************)
\* A pointer has no integer width; a global variable is the n-th of the module.
GlobalVariable(n) == [t |-> "G", w |-> 0, k |-> n]
isGlobalVariable(v) == v.t = "G"
UndefValue(w) == [t |-> "U", w |-> w, k |-> 0]

\* The initializer of a global: a ConstantArray of elements, a
\* ConstantAggregateZero of NumElts elements, a scalar ConstantInt, or none.
ConstantArray(bits, elts) == [c |-> "ConstantArray", bits |-> bits, elts |-> elts]
ConstantAggregateZero(bits, n) ==
  [c |-> "ConstantAggregateZero", bits |-> bits, elts |-> [i \in 1..n |-> ConstantInt(bits, 0)]]
ScalarInit(v) == [c |-> "ConstantInt", bits |-> v.w, elts |-> <<v>>]
NoInit == [c |-> "none", bits |-> 0, elts |-> << >>]

\* A global with these linkage properties and this initializer; an array
\* of i16 is given the alignment 2, the others none.
Global(isConstant, mayBeOverridden, init) ==
  [isConstant |-> isConstant, hasInitializer |-> init.c # "none",
   mayBeOverridden |-> mayBeOverridden, Initializer |-> init,
   Alignment |-> IF init.bits = 16 THEN 2 ELSE 0]

Str(a, b, c) == <<ConstantInt(8, a), ConstantInt(8, b), ConstantInt(8, c)>>

\* The global variables of the module.
GlobalVariables ==
  << Global(TRUE, FALSE, ConstantArray(8, Str(1, 1, 0))),
     Global(TRUE, FALSE, ConstantArray(8, Str(0, 1, 0))),
     Global(TRUE, FALSE, ConstantArray(8, Str(1, 1, 1))),
     Global(TRUE, FALSE, ConstantAggregateZero(8, 3)),
     Global(TRUE, FALSE, ConstantArray(8, <<ConstantInt(8, 1), UndefValue(8), ConstantInt(8, 0)>>)),
     Global(FALSE, FALSE, ConstantArray(8, Str(1, 1, 0))),
     Global(TRUE, TRUE, ConstantArray(8, Str(1, 1, 0))),
     Global(TRUE, FALSE, NoInit),
     Global(TRUE, FALSE, ConstantArray(16, <<ConstantInt(16, 1), ConstantInt(16, 1), ConstantInt(16, 0)>>)),
     Global(TRUE, FALSE, ScalarInit(ConstantInt(8, 0))),
     Global(TRUE, TRUE, ScalarInit(ConstantInt(8, 0))) >>

hasDefinitiveInitializer(GV) == GV.hasInitializer /\ ~GV.mayBeOverridden
isNullValue(init) ==
  \/ init.c = "ConstantAggregateZero"
  \/ init.c = "ConstantInt" /\ init.elts[1].k = 0

\* getBitWidth(V->getType(), TD) with TD null: the width of an integer, 0
\* for a pointer, written w = 0 in its value.
getBitWidth(V) == V.w
isPointerTy(V) == V.w = 0

\* The width of the masks of a query about V: for a pointer the caller's
\* choice, taken to be BitWidth.
MaskBitWidth(V) == IF isPointerTy(V) THEN BitWidth ELSE V.w

\* The attributes of the pointer arguments: argument 0 is plain, the
\* arguments from 1 on are byval with the alignments 4, none and 2.
ParamAlignments == <<4, 0, 2>>
hasByValAttr(A) == isPointerTy(A) /\ A.k \in 1..Len(ParamAlignments)
getParamAlignment(A) == IF hasByValAttr(A) THEN ParamAlignments[A.k] ELSE 0

\* A boolean answer with the assertion flag of the calls made for it.
Ans(b, ok) == [b |-> b, ok |-> ok]
\* a || b and a && b as C++ evaluates them: b only when a does not decide.
\* OrElse asking for both operands.
OrElseBoth(a, b) == IF ~a.b THEN a ELSE Ans(b.b, a.ok /\ b.ok)
OrElse(a, b) == IF a.b THEN a ELSE Ans(b.b, a.ok /\ b.ok)
AndAlso(a, b) == IF ~a.b THEN a ELSE Ans(b.b, a.ok /\ b.ok)

\* A nested call of one of the mutually recursive queries, by its name and
\* its arguments.
RECURSIVE Recurse(_)

ComputeMaskedBits(V, Mask, KnownZeroIn, KnownOneIn, Depth) ==
  Recurse([fn |-> "ComputeMaskedBits", V |-> V, Mask |-> Mask,
           KnownZero |-> KnownZeroIn, KnownOne |-> KnownOneIn, Depth |-> Depth])

isKnownNonZero(V, Depth) ==
  Recurse([fn |-> "isKnownNonZero", V |-> V, Depth |-> Depth])

isPowerOfTwo(V, OrZero, Depth) ==
  Recurse([fn |-> "isPowerOfTwo", V |-> V, OrZero |-> OrZero, Depth |-> Depth])

ComputeNumSignBits(V, Depth) ==
  Recurse([fn |-> "ComputeNumSignBits", V |-> V, Depth |-> Depth])

ComputeMultiple(V, Base, LookThroughSExt, Depth) ==
  Recurse([fn |-> "ComputeMultiple", V |-> V, Base |-> Base,
           LookThroughSExt |-> LookThroughSExt, Depth |-> Depth])

\* The loop over the incoming values of a PHI, from the i-th on.
GetStringLengthH(V, PHIs, Beyond) ==
  Recurse([fn |-> "GetStringLengthH", V |-> V, PHIs |-> PHIs, Beyond |-> Beyond])
IncomingStrings(PN, i, LenSoFar, Beyond, PHIs) ==
  Recurse([fn |-> "IncomingStrings", V |-> PN, i |-> i, LenSoFar |-> LenSoFar,
           Beyond |-> Beyond, PHIs |-> PHIs])
GetConstantStringInfo(V, String, Offset, StopAtNul) ==
  Recurse([fn |-> "GetConstantStringInfo", V |-> V, String |-> String, Offset |-> Offset,
           StopAtNul |-> StopAtNul])
GetPointerBaseWithConstantOffset(Ptr, Offset, PtrSize) ==
  Recurse([fn |-> "GetPointerBaseWithConstantOffset", V |-> Ptr, Offset |-> Offset,
           PtrSize |-> PtrSize])
FindInsertedValue(V, idx_range, InsertBefore, M) ==
  Recurse([fn |-> "FindInsertedValue", V |-> V, idx_range |-> idx_range,
           InsertBefore |-> InsertBefore, M |-> M])
BuildSubAggregateRec(From, To, IndexedType, Idxs, IdxSkip, InsertBefore, M) ==
  Recurse([fn |-> "BuildSubAggregate", V |-> From, To |-> To, IndexedType |-> IndexedType,
           Idxs |-> Idxs, IdxSkip |-> IdxSkip, InsertBefore |-> InsertBefore, M |-> M])
BuildElements(From, To, OrigTo, STy, Idxs, IdxSkip, InsertBefore, i, M) ==
  Recurse([fn |-> "BuildElements", V |-> From, To |-> To, OrigTo |-> OrigTo, STy |-> STy,
           Idxs |-> Idxs, IdxSkip |-> IdxSkip, InsertBefore |-> InsertBefore, i |-> i,
           M |-> M])
EraseBack(PrevTo, OrigTo, M) ==
  Recurse([fn |-> "EraseBack", V |-> PrevTo, OrigTo |-> OrigTo, M |-> M])
ElementAt(V, q) ==
  Recurse([fn |-> "ElementAt", V |-> V, q |-> q])
PHIGeneral(P, Depth, i, KZ, KO) ==
  Recurse([fn |-> "PHIGeneral", V |-> P, Depth |-> Depth, i |-> i,
           KnownZero |-> KZ, KnownOne |-> KO])

\* The answer of ComputeSignBit: the two flags, whether an assertion held
\* and whether ComputeMaskedBits was called.
\* ComputeSignBit asking ComputeMaskedBits whatever the width: a mask of
\* no bits cannot be built.
ComputeSignBitUnguarded(V, Depth) ==
  LET BW == getBitWidth(V)
      r == IF BW = 0 THEN ComputeMaskedBits(V, 0, 0, 0, Depth)
           ELSE ComputeMaskedBits(V, getSignBit(BW), 0, 0, Depth)
  IN [z |-> BW # 0 /\ TestBit(r.z, BW - 1), o |-> BW # 0 /\ TestBit(r.o, BW - 1),
      ok |-> r.ok /\ BW # 0, called |-> TRUE]

ComputeSignBit(V, Depth) ==
  LET BW == getBitWidth(V)
      r == ComputeMaskedBits(V, getSignBit(BW), 0, 0, Depth)
  IN IF BW = 0 THEN [z |-> FALSE, o |-> FALSE, ok |-> TRUE, called |-> FALSE]
     ELSE [z |-> TestBit(r.z, BW - 1), o |-> TestBit(r.o, BW - 1), ok |-> r.ok,
           called |-> TRUE]

\* isPowerOfTwo accepting 1 << X only when zero is not allowed.
isPowerOfTwoShlOnly(V, OrZero, Depth) ==
  IF isConstantInt(V) THEN (IF V.k = 0 THEN OrZero ELSE isPowerOf2(V.k))
  ELSE Opcode(V) = "Shl" /\ m_One(getOperand(V, 0)) /\ ~OrZero

isPowerOfTwoCases(V, OrZero, Depth) ==
  IF isConstantInt(V) THEN (IF V.k = 0 THEN OrZero ELSE isPowerOf2(V.k))
  ELSE IF Opcode(V) = "Shl" /\ m_One(getOperand(V, 0)) THEN TRUE
  ELSE IF Opcode(V) = "LShr" /\ m_SignBit(getOperand(V, 0)) THEN TRUE
  ELSE IF Depth = MaxDepth THEN FALSE
  ELSE LET D == Depth + 1
           op == Opcode(V)
       IN IF OrZero /\ (op = "Shl" \/ m_Shr(V))
            THEN isPowerOfTwo(getOperand(V, 0), TRUE, D)
          ELSE IF op = "ZExt"
            THEN isPowerOfTwo(getOperand(V, 0), OrZero, D)
          ELSE IF op = "Select"
            THEN isPowerOfTwo(getOperand(V, 1), OrZero, D)
                 /\ isPowerOfTwo(getOperand(V, 2), OrZero, D)
          ELSE IF OrZero /\ op = "And"
            THEN LET X == getOperand(V, 0)
                     Y == getOperand(V, 1)
                 IN \/ isPowerOfTwo(X, TRUE, D)
                    \/ isPowerOfTwo(Y, TRUE, D)
                    \/ m_NegOf(X, Y)
                    \/ m_NegOf(Y, X)
          ELSE IF op \in {"LShr", "UDiv"} /\ isExact(V)
            THEN isPowerOfTwo(getOperand(V, 0), OrZero, D)
          ELSE FALSE

\* The fallback of isKnownNonZero: some bit is known one.
NonZeroFallback(r) == Ans(r.o # 0, r.ok)

isKnownNonZeroCases(V, Depth) ==
  IF isConstantInt(V) THEN Ans(V.k # 0, TRUE)
  ELSE IF isGlobalVariable(V) THEN Ans(FALSE, TRUE)
  ELSE IF Depth >= MaxDepth THEN Ans(FALSE, TRUE)
  ELSE
    LET D == Depth + 1
        w == V.w
        op == Opcode(V)
        X == getOperand(V, 0)
        Y == getOperand(V, 1)
        fallback == IF getBitWidth(V) = 0 THEN Ans(FALSE, TRUE)
                    ELSE NonZeroFallback(ComputeMaskedBits(V, AllOnesValue(w), 0, 0, D))
        \* a pattern that answers true, or else falls to the last test
        orFallback(a) == IF a.b THEN a ELSE Ans(fallback.b, a.ok /\ fallback.ok)
    IN CASE op = "Or" -> OrElse(isKnownNonZero(X, D), isKnownNonZero(Y, D))
         [] op \in {"SExt", "ZExt"} -> isKnownNonZero(X, D)
         [] op = "Shl" ->
              IF hasNoUnsignedWrap(V) THEN isKnownNonZero(X, D)
              ELSE LET r == ComputeMaskedBits(X, 1, 0, 0, D)
                   IN orFallback(Ans(TestBit(r.o, 0), r.ok))
         [] m_Shr(V) ->
              IF isExact(V) THEN isKnownNonZero(X, D)
              ELSE LET s == ComputeSignBit(X, D)
                   IN orFallback(Ans(s.o, s.ok))
         [] m_IDiv(V) /\ isExact(V) -> isKnownNonZero(X, D)
         [] op = "Add" ->
              LET sx == ComputeSignBit(X, D)
                  sy == ComputeSignBit(Y, D)
                  ok0 == sx.ok /\ sy.ok
                  Mask == AllOnesValue(w) - getSignBit(w)
                  bothNonNeg ==
                    IF sx.z /\ sy.z
                      THEN OrElse(isKnownNonZero(X, D), isKnownNonZero(Y, D))
                      ELSE Ans(FALSE, TRUE)
                  bothNeg ==
                    IF sx.o /\ sy.o
                      THEN LET rx == ComputeMaskedBits(X, Mask, 0, 0, D)
                               \* the second call reuses the bit sets of the first
                               ry == ComputeMaskedBits(Y, Mask, rx.z, rx.o, D)
                           IN OrElse(Ans(BAnd(rx.o, Mask) # 0, rx.ok),
                                     Ans(BAnd(ry.o, Mask) # 0, ry.ok))
                      ELSE Ans(FALSE, TRUE)
                  pow2 ==
                    Ans((sx.z /\ isPowerOfTwo(Y, FALSE, D))
                          \/ (sy.z /\ isPowerOfTwo(X, FALSE, D)), TRUE)
                  a == OrElse(bothNonNeg, OrElse(bothNeg, pow2))
              IN orFallback(Ans(a.b, a.ok /\ ok0))
         [] op = "Mul" ->
              IF hasNoSignedWrap(V) \/ hasNoUnsignedWrap(V)
                THEN orFallback(AndAlso(isKnownNonZero(X, D), isKnownNonZero(Y, D)))
                ELSE fallback
         [] op = "Select" ->
              orFallback(AndAlso(isKnownNonZero(getOperand(V, 1), D),
                                 isKnownNonZero(getOperand(V, 2), D)))
         [] OTHER -> fallback

\* The PHI loop over the incoming values from index i on, with the running
\* KnownZero / KnownOne.
PHIGeneralCases(P, Depth, i, KZ, KO) ==
  IF i = getNumOperands(P) THEN Known(KZ, KO, TRUE)
  ELSE IF getOperand(P, i) = P THEN PHIGeneral(P, Depth, i + 1, KZ, KO)
  ELSE LET r == ComputeMaskedBits(getOperand(P, i), BOr(KZ, KO), 0, 0, MaxDepth - 1)
           z == BAnd(KZ, r.z)
           o == BAnd(KO, r.o)
       IN IF z = 0 /\ o = 0 THEN Known(0, 0, r.ok)
          ELSE LET rest == PHIGeneral(P, Depth, i + 1, z, o)
               IN Known(rest.z, rest.o, r.ok /\ rest.ok)

ComputeMaskedBitsCases(V, Mask, KnownZeroIn, KnownOneIn, Depth) ==
  LET w == MaskBitWidth(V)
      D == Depth + 1
      All == AllOnesValue(w)
  IN
  IF isConstantInt(V) THEN ConstantCase(w, V.k, Mask)
  ELSE IF isGlobalVariable(V) THEN GlobalValueCase(w, Mask, GlobalVariables[V.k].Alignment)
  ELSE IF isArgument(V)
    THEN ArgumentCase(w, Mask, getParamAlignment(V), KnownZeroIn, KnownOneIn)
  ELSE IF Depth = MaxDepth \/ Mask = 0 THEN Unknown
  ELSE
    LET op == Opcode(V)
        Op0 == getOperand(V, 0)
        Op1 == getOperand(V, 1)
    IN
    CASE op = "And" ->
           LET r1 == ComputeMaskedBits(Op1, Mask, 0, 0, D)
               r0 == ComputeMaskedBits(Op0, BAnd(Mask, BNot(w, Trunc(r1.z, w))), 0, 0, D)
           IN AndCase(r1, r0)
      [] op = "Or" ->
           LET r1 == ComputeMaskedBits(Op1, Mask, 0, 0, D)
               r0 == ComputeMaskedBits(Op0, BAnd(Mask, BNot(w, Trunc(r1.o, w))), 0, 0, D)
           IN OrCase(r1, r0)
      [] op = "Xor" ->
           XorCase(ComputeMaskedBits(Op1, Mask, 0, 0, D),
                   ComputeMaskedBits(Op0, Mask, 0, 0, D))
      [] op = "Mul" ->
           LET r1 == ComputeMaskedBits(Op1, All, 0, 0, D)
               r0 == ComputeMaskedBits(Op0, All, 0, 0, D)
               infer == isNegative(w, Mask) /\ hasNoSignedWrap(V)
               nn1 == isNegative(w, r1.z)
               nn0 == isNegative(w, r0.z)
               ng1 == isNegative(w, r1.o)
               ng0 == isNegative(w, r0.o)
               isKnownNonNegative ==
                 infer /\ (Op1 = Op0 \/ (ng1 /\ ng0) \/ (nn1 /\ nn0))
               \* Op1 negative, Op0 non-negative and non-zero; or the converse
               neg == IF infer /\ ~isKnownNonNegative
                        THEN OrElse(IF ng1 /\ nn0 THEN isKnownNonZero(Op0, Depth)
                                    ELSE Ans(FALSE, TRUE),
                                    IF ng0 /\ nn1 THEN isKnownNonZero(Op1, Depth)
                                    ELSE Ans(FALSE, TRUE))
                        ELSE Ans(FALSE, TRUE)
               r == MulCase(w, Mask, r1, r0, isKnownNonNegative, neg.b)
           IN Known(r.z, r.o, r.ok /\ neg.ok)
      [] op = "UDiv" ->
           UDivCase(w, Mask, ComputeMaskedBits(Op0, All, 0, 0, D),
                             ComputeMaskedBits(Op1, All, 0, 0, D))
      [] op = "Select" ->
           SelectCase(ComputeMaskedBits(getOperand(V, 2), Mask, 0, 0, D),
                      ComputeMaskedBits(Op1, Mask, 0, 0, D))
      [] op = "BitCast" -> ComputeMaskedBits(Op0, Mask, 0, 0, D)
      [] op \in {"PtrToInt", "IntToPtr"} -> Unknown
      [] op = "GetElementPtr" ->
           LET r0 == ComputeMaskedBits(Op0, All, 0, 0, D)
               r1 == ComputeMaskedBits(Op1, AllOnesValue(Op1.w), 0, 0, D)
               r2 == ComputeMaskedBits(getOperand(V, 2), AllOnesValue(getOperand(V, 2).w), 0, 0, D)
           IN IF getNumOperands(V) = 2 THEN GEPCase(w, Mask, <<r0, r1>>)
              ELSE IF isStructIndex(V, 2) THEN Known(0, 0, r0.ok /\ r1.ok)
              ELSE GEPCase(w, Mask, <<r0, r1, r2>>)
      [] op \in {"ZExt", "Trunc"} ->
           LET sw == Op0.w
           IN ZExtTruncCase(w, sw, ComputeMaskedBits(Op0, Trunc(Mask, sw), 0, 0, D))
      [] op = "SExt" ->
           LET sw == Op0.w
           IN SExtCase(w, sw, ComputeMaskedBits(Op0, Trunc(Mask, sw), 0, 0, D))
      [] op = "Shl" /\ isConstantInt(Op1) ->
           LET ShiftAmt == getLimitedValue(Op1.k, w)
           IN ShlCase(w, ShiftAmt,
                      ComputeMaskedBits(Op0, LShr(w, Mask, ShiftAmt), 0, 0, D))
      [] op = "LShr" /\ isConstantInt(Op1) ->
           LET ShiftAmt == getLimitedValue(Op1.k, w)
           IN LShrCase(w, ShiftAmt,
                       ComputeMaskedBits(Op0, Shl(w, Mask, ShiftAmt), 0, 0, D))
      [] op = "AShr" /\ isConstantInt(Op1) ->
           LET ShiftAmt == getLimitedValue(Op1.k, w - 1)
           IN AShrCase(w, ShiftAmt,
                       ComputeMaskedBits(Op0, Shl(w, Mask, ShiftAmt), 0, 0, D))
      [] op \in {"Add", "Sub"} ->
           LET pre == op = "Sub" /\ isConstantInt(Op0) /\ ~isNegative(w, Op0.k)
               \* KnownZero2 / KnownOne2 after the constant-LHS query, if made
               r2 == IF pre THEN ComputeMaskedBits(Op1, SubConstMask(w, Op0.k), 0, 0, D)
                     ELSE Unknown
               KZ0 == IF pre THEN SubConstCase(w, Mask, Op0.k, r2) ELSE 0
               Mask2 == getLowBitsSet(w, w - countLeadingZeros(w, Mask))
               L == ComputeMaskedBits(Op0, Mask2, 0, 0, D)
               R == ComputeMaskedBits(Op1, Mask2, r2.z, r2.o, D)
               r == AddSubCase(w, Mask, op = "Add", hasNoSignedWrap(V), KZ0, L, R)
           IN Known(r.z, r.o, r.ok /\ r2.ok)
      [] op = "SRem" ->
           LET pow2 == isConstantInt(Op1) /\ isPowerOf2(APAbs(w, Op1.k))
               RA == APAbs(w, Op1.k)
               k == IF pow2
                      THEN SRemPow2Case(w, Mask, RA,
                             ComputeMaskedBits(Op0, BOr(RA - 1, getSignBit(w)), 0, 0, D))
                      ELSE Unknown
           IN IF isNegative(w, Mask) /\ ~isNegative(w, k.z)
                THEN SRemSignCase(w, k, ComputeMaskedBits(Op0, getSignBit(w), 0, 0, D))
                ELSE k
      [] op = "URem" ->
           IF isConstantInt(Op1) /\ isPowerOf2(Op1.k)
             THEN URemPow2Case(
                    ComputeMaskedBits(Op0, URemPow2Mask(Mask, Op1.k),
                                      URemPow2KnownZeroIn(w, Mask, Op1.k), 0, D))
             ELSE URemCase(w, Mask, ComputeMaskedBits(Op0, All, 0, 0, D),
                                    ComputeMaskedBits(Op1, All, 0, 0, D))
      [] op = "PHI" ->
           LET n == getNumOperands(V)
               \* the first incoming value that is an operator of a recurrence opcode
               cand == {i \in 0..1 : n = 2 /\ isOperator(getOperand(V, i))
                                      /\ isRecurrenceOpcode(Opcode(getOperand(V, i)))}
               i == IF 0 \in cand THEN 0 ELSE 1
               LU == getOperand(V, i)
               R == getOperand(V, 1 - i)
               LL == getOperand(LU, 0)
               LR == getOperand(LU, 1)
               found == cand # {} /\ (LL = V \/ LR = V)
               L == IF LL = V THEN LR ELSE LL
               r2 == ComputeMaskedBits(R, All, 0, 0, D)
               r3 == ComputeMaskedBits(L, PHIRecurrenceMask(w, r2), 0, 0, D)
               k == IF found THEN PHIRecurrenceCase(w, Mask, r2, r3) ELSE Unknown
           IN IF n = 0 THEN k
              ELSE IF Depth < MaxDepth - 1 /\ k.z = 0 /\ k.o = 0
                        /\ ~hasConstantValueIsSelf(V)
                THEN LET r == PHIGeneral(V, Depth, 0, All, All)
                     IN Known(r.z, r.o, r.ok /\ k.ok)
              ELSE k
      [] op \in {"ctlz", "cttz"} -> CtlzCttzCase(w, isZeroUndef(V))
      [] op = "ctpop" -> CtpopCase(w)
      [] OTHER -> Unknown

\* The generic tail of ComputeNumSignBits: the leading bits that
\* ComputeMaskedBits proves equal to a known sign bit, or else FirstAnswer.
NumSignBitsFromKnownBits(V, Depth, FirstAnswer) ==
  LET TyBits == V.w
      r == ComputeMaskedBits(V, AllOnesValue(TyBits), 0, 0, Depth)
  IN IF isNegative(TyBits, r.z)
       THEN Max(FirstAnswer, Min(TyBits, countLeadingZeros(TyBits, BNot(TyBits, r.z))))
     ELSE IF isNegative(TyBits, r.o)
       THEN Max(FirstAnswer, Min(TyBits, countLeadingZeros(TyBits, BNot(TyBits, r.o))))
     ELSE FirstAnswer

\* AShrSignBits without the limit TyBits.
AShrSignBitsUnlimited(TyBits, Tmp, C) == Tmp + C

\* ashr X, C adds C sign bits, TyBits at most.
AShrSignBits(TyBits, Tmp, C) == Min(TyBits, Tmp + C)

\* ShlSignBits answering 1 where the code leaves the switch.
ShlSignBitsOrOne(TyBits, Tmp, C, Generic) ==
  IF C >= TyBits \/ C >= Tmp THEN 1 ELSE Tmp - C

\* shl X, C destroys C sign bits; a bad shift, or one that shifts all the
\* sign bits out, leaves the switch for the generic tail.
ShlSignBits(TyBits, Tmp, C, Generic) ==
  IF C >= TyBits \/ C >= Tmp THEN Generic ELSE Tmp - C

\* add X, -1 and sub 0, X: the operand known to be 0 or 1 gives TyBits, the
\* operand known non-negative gives its own count Tmp, otherwise 0 (no
\* answer from the special case).
DecrementOrNegCase(TyBits, r, Tmp) ==
  IF BOr(r.z, 1) = AllOnesValue(TyBits) THEN TyBits
  ELSE IF isNegative(TyBits, r.z) THEN Tmp
  ELSE 0

\* The minimum over the incoming values of a PHI, from the i-th on.
RECURSIVE PHIMinSignBits(_, _, _, _)
PHIMinSignBits(P, D, i, Tmp) ==
  IF i = getNumOperands(P) \/ Tmp = 1 THEN Tmp
  ELSE PHIMinSignBits(P, D, i + 1, Min(Tmp, ComputeNumSignBits(getOperand(P, i), D)))

ComputeNumSignBitsCases(V, Depth) ==
  IF Depth = 6 THEN 1
  ELSE
    LET TyBits == V.w
        D == Depth + 1
        op == Opcode(V)
        Op0 == getOperand(V, 0)
        Op1 == getOperand(V, 1)
    IN
    CASE op = "SExt" -> ComputeNumSignBits(Op0, D) + (TyBits - Op0.w)
      [] op = "AShr" ->
           LET Tmp == ComputeNumSignBits(Op0, D)
           IN IF isConstantInt(Op1) THEN AShrSignBits(TyBits, Tmp, Op1.k) ELSE Tmp
      [] op = "Shl" /\ isConstantInt(Op1) ->
           ShlSignBits(TyBits, ComputeNumSignBits(Op0, D), Op1.k,
                       NumSignBitsFromKnownBits(V, Depth, 1))
      [] op \in {"And", "Or", "Xor"} ->
           LET Tmp == ComputeNumSignBits(Op0, D)
               FirstAnswer == IF Tmp # 1 THEN Min(Tmp, ComputeNumSignBits(Op1, D)) ELSE 1
           IN NumSignBitsFromKnownBits(V, Depth, FirstAnswer)
      [] op = "Select" ->
           LET Tmp == ComputeNumSignBits(Op1, D)
           IN IF Tmp = 1 THEN 1 ELSE Min(Tmp, ComputeNumSignBits(getOperand(V, 2), D))
      [] op = "Add" ->
           LET Tmp == ComputeNumSignBits(Op0, D)
               special == IF isConstantInt(Op1) /\ Op1.k = AllOnesValue(TyBits)
                            THEN DecrementOrNegCase(TyBits,
                                   ComputeMaskedBits(Op0, AllOnesValue(TyBits), 0, 0, D), Tmp)
                            ELSE 0
               Tmp2 == ComputeNumSignBits(Op1, D)
           IN IF Tmp = 1 THEN 1
              ELSE IF special # 0 THEN special
              ELSE IF Tmp2 = 1 THEN 1
              ELSE Min(Tmp, Tmp2) - 1
      [] op = "Sub" ->
           LET Tmp2 == ComputeNumSignBits(Op1, D)
               special == IF isConstantInt(Op0) /\ Op0.k = 0
                            THEN DecrementOrNegCase(TyBits,
                                   ComputeMaskedBits(Op1, AllOnesValue(TyBits), 0, 0, D), Tmp2)
                            ELSE 0
               Tmp == ComputeNumSignBits(Op0, D)
           IN IF Tmp2 = 1 THEN 1
              ELSE IF special # 0 THEN special
              ELSE IF Tmp = 1 THEN 1
              ELSE Min(Tmp, Tmp2) - 1
      \* a PHI with more than 4 incoming values goes to the generic tail
      [] op = "PHI" /\ getNumOperands(V) \in 1..4 ->
           PHIMinSignBits(V, D, 1, ComputeNumSignBits(Op0, D))
      [] OTHER -> NumSignBitsFromKnownBits(V, Depth, 1)

\* The answer of ComputeMultiple: the boolean returned and the value left
\* in Multiple.
NoMultiple == [b |-> FALSE, Multiple |-> [t |-> "none", w |-> 0, k |-> 0]]
IsMultiple(M) == [b |-> TRUE, Multiple |-> M]

\* ConstantExpr::getMul of two constant integers, the narrower one
\* zero-extended to the type of the wider.
ConstantMul(a, b) ==
  LET w == Max(a.w, b.w)
  IN ConstantInt(w, (a.k * b.k) % Pow2(w))

\* One factor of a mul is Base * m.Multiple, Op is the other factor.
FactorCase(m, Op) ==
  IF ~m.b THEN NoMultiple
  ELSE IF isConstantInt(Op) /\ isConstantInt(m.Multiple)
    THEN IsMultiple(ConstantMul(m.Multiple, Op))
  ELSE IF isConstantInt(m.Multiple) /\ m.Multiple.k = 1 THEN IsMultiple(Op)
  ELSE NoMultiple

\* Op0 << Op1 as Op0 * 2^Op1.
ShlAsFactor(Op1) == ConstantInt(Op1.w, Pow2(getLimitedValue(Op1.k, Op1.w - 1)))

\* No constant expression is a value of the model, so the test
\* CO && CO == BaseVal never holds.
ComputeMultipleCases(V, Base, LookThroughSExt, Depth) ==
  IF Base = 0 THEN NoMultiple
  ELSE IF Base = 1 THEN IsMultiple(V)
  ELSE IF isConstantInt(V) /\ V.k % Base = 0
    THEN IsMultiple(ConstantInt(V.w, V.k \div Base))
  ELSE IF Depth = MaxDepth THEN NoMultiple
  ELSE IF ~isOperator(V) THEN NoMultiple
  ELSE
    LET op == Opcode(V)
        D == Depth + 1
        Op0 == getOperand(V, 0)
    IN
    CASE op = "SExt" /\ ~LookThroughSExt -> NoMultiple
      [] op \in {"SExt", "ZExt"} -> ComputeMultiple(Op0, Base, LookThroughSExt, D)
      [] op = "Shl" /\ ~isConstantInt(getOperand(V, 1)) -> NoMultiple
      [] op \in {"Shl", "Mul"} ->
           LET Op1 == IF op = "Shl" THEN ShlAsFactor(getOperand(V, 1))
                      ELSE getOperand(V, 1)
               first == FactorCase(ComputeMultiple(Op0, Base, LookThroughSExt, D), Op1)
           IN IF first.b THEN first
              ELSE FactorCase(ComputeMultiple(Op1, Base, LookThroughSExt, D), Op0)
      [] OTHER -> NoMultiple
(***************************************************************************)
(* GetStringLength: pointers, global variables and their initializers.     *)
(***************************************************************************)
\* ~0ULL: the PHI node was already in the set.
AlreadySeen == 0 - 1

\* SmallPtrSet<PHINode*, 32> PHIs: the set, and the log of the PHI nodes
\* whose incoming values were walked, in the order of the walks.
NoPHIs == [set |-> {}, walked |-> << >>]
InsertPHI(PHIs, PN) == [set |-> PHIs.set \cup {PN}, walked |-> Append(PHIs.walked, PN)]

\* What GetStringLengthH hands back: the length, the PHI set as it leaves
\* it, and whether it returned at all.
Length(n, PHIs) == [ok |-> TRUE, Len |-> n, PHIs |-> PHIs]

\* The traversal of the array from StartIdx.  Array->getOperand(i) with
\* i > NumElts reads past the operands: Beyond is what that read leads to,
\* an abort or some length.
TraverseArray(elts, StartIdx, Beyond, PHIs) ==
  LET NumElts == Len(elts)
      stop == {i \in StartIdx..(NumElts - 1) :
                 ~isConstantInt(elts[i + 1]) \/ elts[i + 1].k = 0}
      i == CHOOSE j \in stop : \A n \in stop : j <= n
  IN IF StartIdx > NumElts THEN [ok |-> Beyond.ok, Len |-> Beyond.Len, PHIs |-> PHIs]
     ELSE IF stop = {} THEN Length(0, PHIs)
     ELSE IF ~isConstantInt(elts[i + 1]) THEN Length(0, PHIs)
     ELSE Length(i - StartIdx + 1, PHIs)

\* The GEP case, V a getelementptr.
GEPStringCase(V, Beyond, PHIs) ==
  LET Idx == getOperand(V, 1)
      CI == getOperand(V, 2)
      GV == GlobalVariables[getOperand(V, 0).k]
      GlobalInit == GV.Initializer
  IN IF getNumOperands(V) # 3 THEN Length(0, PHIs)
     ELSE IF ~isConstantInt(Idx) \/ Idx.k # 0 THEN Length(0, PHIs)
     ELSE IF ~isConstantInt(CI) THEN Length(0, PHIs)
     ELSE IF ~isGlobalVariable(getOperand(V, 0)) THEN Length(0, PHIs)
     ELSE IF ~GV.isConstant \/ ~GV.hasInitializer \/ GV.mayBeOverridden THEN Length(0, PHIs)
     ELSE IF GlobalInit.c = "ConstantAggregateZero" THEN Length(1, PHIs)
     ELSE IF GlobalInit.c # "ConstantArray" \/ GlobalInit.bits # 8 THEN Length(0, PHIs)
     ELSE TraverseArray(GlobalInit.elts, CI.k, Beyond, PHIs)

\* The global variable itself, not wrapped in a bitcast or GEP.
GlobalStringCase(V, PHIs) ==
  LET GV == GlobalVariables[V.k]
  IN IF GV.isConstant /\ hasDefinitiveInitializer(GV) /\ isNullValue(GV.Initializer)
       THEN Length(1, PHIs)
       ELSE Length(0, PHIs)

\* strlen(select(c,x,y)); Len2 is asked for only when Len1 is known.
SelectStringCase(V, Beyond, PHIs) ==
  LET Len1 == GetStringLengthH(getOperand(V, 1), PHIs, Beyond)
      Len2 == GetStringLengthH(getOperand(V, 2), Len1.PHIs, Beyond)
  IN IF ~Len1.ok \/ Len1.Len = 0 THEN [Len1 EXCEPT !.Len = 0]
     ELSE IF ~Len2.ok \/ Len2.Len = 0 THEN [Len2 EXCEPT !.Len = 0]
     ELSE IF Len1.Len = AlreadySeen THEN Len2
     ELSE IF Len2.Len = AlreadySeen THEN [Len2 EXCEPT !.Len = Len1.Len]
     ELSE IF Len1.Len # Len2.Len THEN [Len2 EXCEPT !.Len = 0]
     ELSE [Len2 EXCEPT !.Len = Len1.Len]

\* The loop over the incoming values of PN, from the i-th on.
IncomingStringCases(PN, i, LenSoFar, Beyond, PHIs) ==
  IF i = getNumOperands(PN) THEN Length(LenSoFar, PHIs)
  ELSE LET r == GetStringLengthH(getOperand(PN, i), PHIs, Beyond)
       IN IF ~r.ok \/ r.Len = 0 THEN [r EXCEPT !.Len = 0]
          ELSE IF r.Len = AlreadySeen
            THEN IncomingStrings(PN, i + 1, LenSoFar, Beyond, r.PHIs)
          ELSE IF r.Len # LenSoFar /\ LenSoFar # AlreadySeen THEN [r EXCEPT !.Len = 0]
          ELSE IncomingStrings(PN, i + 1, r.Len, Beyond, r.PHIs)

GetStringLengthHCases(V, PHIs, Beyond) ==
  IF Opcode(V) = "BitCast" THEN GetStringLengthH(getOperand(V, 0), PHIs, Beyond)
  ELSE IF Opcode(V) = "PHI"
    THEN IF V.k \in PHIs.set THEN Length(AlreadySeen, PHIs)
         ELSE IncomingStrings(V, 0, AlreadySeen, Beyond, InsertPHI(PHIs, V.k))
  ELSE IF Opcode(V) = "Select" THEN SelectStringCase(V, Beyond, PHIs)
  ELSE IF isGlobalVariable(V) THEN GlobalStringCase(V, PHIs)
  ELSE IF Opcode(V) = "GetElementPtr" THEN GEPStringCase(V, Beyond, PHIs)
  ELSE Length(0, PHIs)



(***************************************************************************)
(* bool llvm::GetConstantStringInfo(const Value *V, std::string &Str,      *)
(*                                  uint64_t Offset, bool StopAtNul)       *)
(***************************************************************************)
\* What the call hands back: its return value and String as it leaves it.
StringInfo(ret, String) == [ret |-> ret, Str |-> String]

\* The type V points to is an array of i8: a global has the type of its
\* initializer, a bitcast the type it casts to, a GEP into an array of i8
\* and an argument here point to an i8.
isPointerToArrayOfI8(V) ==
  IF isGlobalVariable(V)
    THEN LET init == GlobalVariables[V.k].Initializer
         IN init.c \in {"ConstantArray", "ConstantAggregateZero"} /\ init.bits = 8
  ELSE Opcode(V) = "BitCast" /\ "array" \in g[V.k].f

\* (char)CI->getZExtValue()
Char(CI) == CI.k % 256

\* The traversal of the array from Offset on, appending to String.
ExtractString(elts, Offset, StopAtNul, String) ==
  LET NumElts == Len(elts)
      stop == {i \in Offset..(NumElts - 1) :
                 ~isConstantInt(elts[i + 1]) \/ (StopAtNul /\ elts[i + 1].k = 0)}
      last == IF stop = {} THEN NumElts
              ELSE CHOOSE j \in stop : \A n \in stop : j <= n
      read == [j \in 1..(last - Offset) |-> Char(elts[Offset + j])]
  IN StringInfo(stop = {} \/ isConstantInt(elts[last + 1]), String \o read)

\* V is neither a bitcast nor a GEP: it must be a constant global with a
\* definitive initializer.
GlobalStringInfo(V, String, Offset, StopAtNul) ==
  LET GV == GlobalVariables[V.k]
      GlobalInit == GV.Initializer
  IN IF ~isGlobalVariable(V) THEN StringInfo(FALSE, String)
     ELSE IF ~GV.isConstant \/ ~hasDefinitiveInitializer(GV) THEN StringInfo(FALSE, String)
     ELSE IF isNullValue(GlobalInit) THEN StringInfo(TRUE, << >>)
     ELSE IF GlobalInit.c # "ConstantArray" \/ GlobalInit.bits # 8 THEN StringInfo(FALSE, String)
     ELSE IF Offset > Len(GlobalInit.elts) THEN StringInfo(FALSE, String)
     ELSE ExtractString(GlobalInit.elts, Offset, StopAtNul, String)

GetConstantStringInfoCases(V, String, Offset, StopAtNul) ==
  IF Opcode(V) = "BitCast"
    THEN GetConstantStringInfo(getOperand(V, 0), String, Offset, StopAtNul)
  ELSE IF Opcode(V) = "GetElementPtr"
    THEN IF getNumOperands(V) # 3 THEN StringInfo(FALSE, String)
         ELSE IF ~isPointerToArrayOfI8(getOperand(V, 0)) THEN StringInfo(FALSE, String)
         ELSE IF ~isConstantInt(getOperand(V, 1)) \/ getOperand(V, 1).k # 0
           THEN StringInfo(FALSE, String)
         ELSE IF ~isConstantInt(getOperand(V, 2)) THEN StringInfo(FALSE, String)
         ELSE GetConstantStringInfo(getOperand(V, 0), String, getOperand(V, 2).k + Offset,
                                    StopAtNul)
  ELSE GlobalStringInfo(V, String, Offset, StopAtNul)

(***************************************************************************)
(* Value *llvm::GetPointerBaseWithConstantOffset(Value *Ptr,               *)
(*                              int64_t &Offset, const TargetData &TD)     *)
(* Offset is an int64_t, here an integer of OffsetBits bits; TD gives the  *)
(* pointer size and the layout of the types a GEP steps over.              *)
(***************************************************************************)
OffsetBits == 6

\* int64_t arithmetic: the value wraps to the width of Offset.
WrapOffset(x) == Signed(OffsetBits, x % Pow2(OffsetBits))

\* ReSignExtend leaving Offset as the additions made it.
ReSignExtendNever(PtrSize, Offset) == Offset

\* Re-sign extend from the pointer size if it is smaller than Offset.
ReSignExtend(PtrSize, Offset) ==
  IF PtrSize < OffsetBits THEN Signed(PtrSize, Offset % Pow2(PtrSize)) ELSE Offset

\* The layout TD gives: the struct { i8, i16 } has its fields at 0 and 2 and
\* the size 4; an array has three elements of one byte, of two when the GEP
\* is marked wide.  The first index steps over the whole pointee, the second
\* over an element.
StructLayout == <<0, 2>>
getElementOffset(n) == StructLayout[n + 1]
getTypeAllocSize(V, i) ==
  LET elt == IF "wide" \in g[V.k].f THEN 2 ELSE 1
  IN IF i = 2 THEN elt
     ELSE IF "struct" \in g[V.k].f THEN 4
     ELSE 3 * elt

isVectorTy(V) == isOperator(V) /\ "vector" \in g[V.k].f

hasAllConstantIndices(V) ==
  \A i \in 1..(getNumOperands(V) - 1) : isConstantInt(getOperand(V, i))

\* What the index operand i of the GEP V adds to Offset.
IndexOffset(V, i) ==
  LET OpC == getOperand(V, i)
  IN IF OpC.k = 0 THEN 0
     ELSE IF isStructIndex(V, i) THEN getElementOffset(OpC.k)
     ELSE Signed(OpC.w, OpC.k) * getTypeAllocSize(V, i)

\* The loop over the indices of the GEP V.
AddIndexOffsets(V, Offset) ==
  LET Acc[i \in 0..(getNumOperands(V) - 1)] ==
        IF i = 0 THEN Offset ELSE WrapOffset(Acc[i - 1] + IndexOffset(V, i))
  IN Acc[getNumOperands(V) - 1]

BaseAndOffset(Ptr, Offset) == [Base |-> Ptr, Offset |-> Offset]

GetPointerBaseWithConstantOffsetCases(Ptr, Offset, PtrSize) ==
  IF ~isOperator(Ptr) \/ isVectorTy(Ptr) THEN BaseAndOffset(Ptr, Offset)
  ELSE IF Opcode(Ptr) = "BitCast"
    THEN GetPointerBaseWithConstantOffset(getOperand(Ptr, 0), Offset, PtrSize)
  ELSE IF Opcode(Ptr) # "GetElementPtr" \/ ~hasAllConstantIndices(Ptr)
    THEN BaseAndOffset(Ptr, Offset)
  ELSE GetPointerBaseWithConstantOffset(getOperand(Ptr, 0),
                                        ReSignExtend(PtrSize, AddIndexOffsets(Ptr, Offset)),
                                        PtrSize)

(***************************************************************************)
(* FindInsertedValue and BuildSubAggregate.  A type is the sequence of the *)
(* types of its elements, the empty sequence for a scalar; in a value of   *)
(* this part the field w holds the type.  An insertvalue has the operands  *)
(* <<aggregate, inserted value>>, an extractvalue <<aggregate>>, and the   *)
(* field f of either holds the indices.                                    *)
(***************************************************************************)
ScalarTy == << >>
isStructTy(Ty) == Ty # << >>

\* ExtractValueInst::getIndexedType, and whether the indices fit the type.
TypesAlong(Ty, idx) ==
  LET At[n \in 0..Len(idx)] ==
        IF n = 0 THEN Ty
        ELSE IF idx[n] < Len(At[n - 1]) THEN At[n - 1][idx[n] + 1]
        ELSE ScalarTy
  IN At
getIndexedType(Ty, idx) == TypesAlong(Ty, idx)[Len(idx)]
isValidIndices(Ty, idx) == \A n \in 1..Len(idx) : idx[n] < Len(TypesAlong(Ty, idx)[n - 1])

\* Values: null, zeroinitializer, a constant struct of elements.
NullPtr == [t |-> "none", w |-> ScalarTy, k |-> 0]
isNull(V) == V.t = "none"
\* The constant structs of the module, and the n-th of them as a value.
ConstantStructs == << <<ConstantInt(ScalarTy, 1), ConstantInt(ScalarTy, 0)>> >>
ConstantStruct(Ty, n) == [t |-> "CS", w |-> Ty, k |-> n]
getElement(C, i) == ConstantStructs[C.k][i + 1]
getNullValue(Ty) == IF isStructTy(Ty) THEN [t |-> "Z", w |-> Ty, k |-> 0] ELSE ConstantInt(Ty, 0)
SameValue(a, b) == a.t = b.t /\ (isNull(a) \/ (a.w = b.w /\ a.k = b.k))

\* The instructions as a call leaves them: those it created, after the
\* ones of g, and those it erased; ok is lowered when an insertvalue is
\* created on a null aggregate, built is raised when BuildSubAggregate runs.
NoChange == [created |-> << >>, erased |-> {}, ok |-> TRUE, built |-> FALSE]
InstructionOf(V, M) == IF V.k <= Len(g) THEN g[V.k] ELSE M.created[V.k - Len(g)]
isInsertValue(V, M) == isOperator(V) /\ InstructionOf(V, M).op = "InsertValue"
isExtractValue(V, M) == isOperator(V) /\ InstructionOf(V, M).op = "ExtractValue"
getAggregateOperand(V, M) == InstructionOf(V, M).ops[1]
getInsertedValueOperand(V, M) == InstructionOf(V, M).ops[2]
getIndices(V, M) == InstructionOf(V, M).f

Returned(V, M) == [ret |-> V, M |-> M]

\* InsertValueInst::Create(To, V, Idxs, "tmp", InsertBefore)
CreateInsertValue(To, V, Idxs, M) ==
  IF isNull(To) THEN Returned(NullPtr, [M EXCEPT !.ok = FALSE])
  ELSE LET I == Inst(To.w, Len(g) + Len(M.created) + 1)
           Created == [op |-> "InsertValue", w |-> To.w, ops |-> <<To, V>>, f |-> Idxs]
       IN Returned(I, [M EXCEPT !.created = Append(@, Created)])

\* Differs saying so of every insertvalue.
DiffersAlways(Idx, req) == TRUE

\* Some index of the insertvalue differs from the requested one at its place.
Differs(Idx, req) ==
  \E j \in 1..Len(Idx) : j <= Len(req) /\ Idx[j] # req[j]

\* The indices of an extractvalue chained with the requested ones.
ChainIndices(Idx, req) == Idx \o req

FindInsertedValueCases(V, idx_range, InsertBefore, M) ==
  IF idx_range = << >> THEN Returned(V, M)
  ELSE IF V.t = "U" THEN Returned(UndefValue(getIndexedType(V.w, idx_range)), M)
  ELSE IF V.t = "Z" THEN Returned(getNullValue(getIndexedType(V.w, idx_range)), M)
  ELSE IF V.t = "CS"
    THEN FindInsertedValue(getElement(V, idx_range[1]), Tail(idx_range), InsertBefore, M)
  ELSE IF isInsertValue(V, M)
    THEN LET Idx == getIndices(V, M)
         IN IF Differs(Idx, idx_range)
              THEN FindInsertedValue(getAggregateOperand(V, M), idx_range, InsertBefore, M)
            ELSE IF Len(idx_range) < Len(Idx)
              THEN IF InsertBefore
                     THEN LET IndexedType == getIndexedType(V.w, idx_range)
                          IN BuildSubAggregateRec(V, UndefValue(IndexedType), IndexedType,
                                                  idx_range, Len(idx_range), InsertBefore,
                                                  [M EXCEPT !.built = TRUE])
                     ELSE Returned(NullPtr, M)
            ELSE FindInsertedValue(getInsertedValueOperand(V, M),
                                   SubSeq(idx_range, Len(Idx) + 1, Len(idx_range)),
                                   InsertBefore, M)
  ELSE IF isExtractValue(V, M)
    THEN FindInsertedValue(getAggregateOperand(V, M),
                           ChainIndices(getIndices(V, M), idx_range), InsertBefore, M)
  ELSE Returned(NullPtr, M)

\* The cleanup loop: the insertvalues from PrevTo back to OrigTo are erased.
EraseBackCases(PrevTo, OrigTo, M) ==
  IF SameValue(PrevTo, OrigTo) THEN M
  ELSE EraseBack(getAggregateOperand(PrevTo, M), OrigTo,
                 [M EXCEPT !.erased = @ \cup {PrevTo.k}])

\* The loop over the elements of the struct STy, from the i-th on.
BuildElementsCases(From, To, OrigTo, STy, Idxs, IdxSkip, InsertBefore, i, M) ==
  IF i = Len(STy) THEN Returned(To, M)
  ELSE LET r == BuildSubAggregateRec(From, To, STy[i + 1], Append(Idxs, i), IdxSkip,
                                     InsertBefore, M)
       IN IF ~r.M.ok THEN r
          ELSE IF isNull(r.ret) THEN Returned(NullPtr, EraseBack(To, OrigTo, r.M))
          ELSE BuildElements(From, r.ret, OrigTo, STy, Idxs, IdxSkip, InsertBefore, i + 1, r.M)

\* The base case: the value at Idxs is looked for with no insertion point
\* and inserted into To.
InsertFound(From, To, Idxs, IdxSkip, M) ==
  LET V == FindInsertedValue(From, Idxs, FALSE, M).ret
  IN IF isNull(V) THEN Returned(NullPtr, M)
     ELSE CreateInsertValue(To, V, SubSeq(Idxs, IdxSkip + 1, Len(Idxs)), M)

BuildSubAggregateCases(From, To, IndexedType, Idxs, IdxSkip, InsertBefore, M) ==
  IF isStructTy(IndexedType)
    THEN LET r == BuildElements(From, To, To, IndexedType, Idxs, IdxSkip, InsertBefore, 0, M)
         IN IF ~r.M.ok \/ ~isNull(r.ret) THEN r
            ELSE InsertFound(From, r.ret, Idxs, IdxSkip, r.M)
    ELSE InsertFound(From, To, Idxs, IdxSkip, M)

\* The element of the aggregate V at the path q of a scalar: the scalar it
\* holds, or the place in the aggregate of unknown contents it comes from.
Element(base, at) == [base |-> base, at |-> at]

ElementAtCases(V, q) ==
  IF V.t = "U" THEN Element(UndefValue(ScalarTy), << >>)
  ELSE IF V.t = "Z" THEN Element(ConstantInt(ScalarTy, 0), << >>)
  ELSE IF V.t = "CS" THEN ElementAt(getElement(V, q[1]), Tail(q))
  ELSE IF isInsertValue(V, NoChange)
    THEN LET Idx == getIndices(V, NoChange)
         IN IF Len(Idx) <= Len(q) /\ SubSeq(q, 1, Len(Idx)) = Idx
              THEN ElementAt(getInsertedValueOperand(V, NoChange),
                             SubSeq(q, Len(Idx) + 1, Len(q)))
              ELSE ElementAt(getAggregateOperand(V, NoChange), q)
  ELSE IF isExtractValue(V, NoChange)
    THEN ElementAt(getAggregateOperand(V, NoChange), getIndices(V, NoChange) \o q)
  ELSE Element(V, q)

\* The result of a call; for ComputeMaskedBits ok is lowered when the
\* returned pair is not disjoint.
Recurse(q) ==
  CASE q.fn = "ComputeMaskedBits" ->
         LET r == ComputeMaskedBitsCases(q.V, q.Mask, q.KnownZero, q.KnownOne, q.Depth)
         IN Known(r.z, r.o, r.ok /\ Disjoint(r))
    [] q.fn = "isKnownNonZero" -> isKnownNonZeroCases(q.V, q.Depth)
    [] q.fn = "isPowerOfTwo" -> isPowerOfTwoCases(q.V, q.OrZero, q.Depth)
    [] q.fn = "ComputeNumSignBits" -> ComputeNumSignBitsCases(q.V, q.Depth)
    [] q.fn = "ComputeMultiple" ->
         ComputeMultipleCases(q.V, q.Base, q.LookThroughSExt, q.Depth)
    [] q.fn = "GetStringLengthH" -> GetStringLengthHCases(q.V, q.PHIs, q.Beyond)
    [] q.fn = "IncomingStrings" ->
         IncomingStringCases(q.V, q.i, q.LenSoFar, q.Beyond, q.PHIs)
    [] q.fn = "PHIGeneral" ->
         PHIGeneralCases(q.V, q.Depth, q.i, q.KnownZero, q.KnownOne)
    [] q.fn = "GetPointerBaseWithConstantOffset" ->
         GetPointerBaseWithConstantOffsetCases(q.V, q.Offset, q.PtrSize)
    [] q.fn = "FindInsertedValue" ->
         FindInsertedValueCases(q.V, q.idx_range, q.InsertBefore, q.M)
    [] q.fn = "BuildSubAggregate" ->
         BuildSubAggregateCases(q.V, q.To, q.IndexedType, q.Idxs, q.IdxSkip,
                                q.InsertBefore, q.M)
    [] q.fn = "BuildElements" ->
         BuildElementsCases(q.V, q.To, q.OrigTo, q.STy, q.Idxs, q.IdxSkip,
                            q.InsertBefore, q.i, q.M)
    [] q.fn = "EraseBack" -> EraseBackCases(q.V, q.OrigTo, q.M)
    [] q.fn = "ElementAt" -> ElementAtCases(q.V, q.q)
    [] q.fn = "GetConstantStringInfo" ->
         GetConstantStringInfoCases(q.V, q.String, q.Offset, q.StopAtNul)

\* MaskedValueIsZero: true iff 'V & Mask' is known to be zero.
MaskedValueIsZero(V, Mask, Depth) ==
  LET r == ComputeMaskedBits(V, Mask, 0, 0, Depth)
  IN Ans(BAnd(r.z, Mask) = Mask, r.ok /\ Disjoint(r))


(***************************************************************************)
(* Concrete semantics of the operand graph (LLVM IR on two's complement    *)
(* integers).  Poison stands for a value whose computation is undefined:   *)
(* a division by zero, an over-wide shift, a broken nsw/nuw/exact flag.    *)
(***************************************************************************)
Poison == 0 - 1

SDivQ(w, a, b) ==
  LET x == Signed(w, a)
      y == Signed(w, b)
      ax == IF x < 0 THEN 0 - x ELSE x
      ay == IF y < 0 THEN 0 - y ELSE y
      m == ax \div ay
  IN IF (x < 0) = (y < 0) THEN m ELSE 0 - m

SRemR(w, a, b) ==
  LET x == Signed(w, a)
      y == Signed(w, b)
      ax == IF x < 0 THEN 0 - x ELSE x
      ay == IF y < 0 THEN 0 - y ELSE y
      m == ax % ay
  IN IF x < 0 THEN 0 - m ELSE m

InSigned(w, i) == i >= 0 - Pow2(w - 1) /\ i < Pow2(w - 1)

\* The value of a two-operand instruction nd on operand values a, b.
EvalBinary(nd, a, b) ==
  LET w == nd.w
      op == nd.op
      nsw == "nsw" \in nd.f
      nuw == "nuw" \in nd.f
      exact == "exact" \in nd.f
      sa == Signed(w, a)
      sb == Signed(w, b)
  IN
  CASE op = "And" -> BAnd(a, b)
    [] op = "Or" -> BOr(a, b)
    [] op = "Xor" -> BXor(a, b)
    [] op = "Add" ->
         IF (nsw /\ ~InSigned(w, sa + sb)) \/ (nuw /\ a + b >= Pow2(w)) THEN Poison
         ELSE (a + b) % Pow2(w)
    [] op = "Sub" ->
         IF (nsw /\ ~InSigned(w, sa - sb)) \/ (nuw /\ a < b) THEN Poison
         ELSE (a + Pow2(w) - b) % Pow2(w)
    [] op = "Mul" ->
         IF (nsw /\ ~InSigned(w, sa * sb)) \/ (nuw /\ a * b >= Pow2(w)) THEN Poison
         ELSE (a * b) % Pow2(w)
    [] op = "UDiv" ->
         IF b = 0 \/ (exact /\ a % b # 0) THEN Poison ELSE a \div b
    [] op = "SDiv" ->
         IF b = 0 \/ (sa = 0 - Pow2(w - 1) /\ sb = 0 - 1) THEN Poison
         ELSE IF exact /\ SRemR(w, a, b) # 0 THEN Poison
         ELSE Unsigned(w, SDivQ(w, a, b) + Pow2(w))
    [] op = "URem" -> IF b = 0 THEN Poison ELSE a % b
    [] op = "SRem" ->
         IF b = 0 \/ (sa = 0 - Pow2(w - 1) /\ sb = 0 - 1) THEN Poison
         ELSE Unsigned(w, SRemR(w, a, b) + Pow2(w))
    [] op = "Shl" ->
         IF b >= w THEN Poison
         ELSE IF nuw /\ a * Pow2(b) >= Pow2(w) THEN Poison
         ELSE IF nsw /\ ~InSigned(w, sa * Pow2(b)) THEN Poison
         ELSE (a * Pow2(b)) % Pow2(w)
    [] op = "LShr" ->
         IF b >= w \/ (exact /\ a % Pow2(b) # 0) THEN Poison ELSE a \div Pow2(b)
    [] op = "AShr" ->
         IF b >= w \/ (exact /\ a % Pow2(b) # 0) THEN Poison
         ELSE IF sa < 0 THEN BOr(a \div Pow2(b), getHighBitsSet(w, b))
         ELSE a \div Pow2(b)

\* The value of a one-operand instruction nd on operand value a of width sw.
EvalUnary(nd, sw, a) ==
  LET w == nd.w
      op == nd.op
  IN
  CASE op = "ZExt" -> a
    [] op = "SExt" -> IF isNegative(sw, a) THEN BOr(a, getHighBitsSet(w, w - sw)) ELSE a
    [] op = "Trunc" -> a % Pow2(w)
    [] op = "ctlz" -> IF a = 0 /\ "zero_undef" \in nd.f THEN Poison
                      ELSE countLeadingZeros(w, a)
    [] op = "cttz" -> IF a = 0 /\ "zero_undef" \in nd.f THEN Poison
                      ELSE countTrailingZeros(w, a)
    [] op = "ctpop" -> countPopulation(a)

isBinary(op) ==
  op \in {"And", "Or", "Xor", "Add", "Sub", "Mul", "UDiv", "SDiv", "URem", "SRem",
          "Shl", "LShr", "AShr"}
isUnary(op) == op \in {"ZExt", "SExt", "Trunc", "ctlz", "cttz", "ctpop"}

\* One execution of the instructions in program order: cur holds the values
\* of the instructions already executed in this pass, prev the values of the
\* previous pass (empty in the first pass), env the argument values.  A PHI
\* takes any incoming value that is available; a select takes either arm.
Available(v, i, prev) == ~isOperator(v) \/ v.k < i \/ prev # << >>

ValueOf(v, i, cur, prev, env) ==
  IF isConstantInt(v) THEN v.k
  ELSE IF isArgument(v) THEN env[v]
  ELSE IF v.k < i THEN cur[v.k]
  ELSE prev[v.k]

InstValues(i, cur, prev, env) ==
  LET nd == g[i]
      val(j) == ValueOf(nd.ops[j], i, cur, prev, env)
  IN
  IF nd.op = "PHI"
    THEN LET vs == {val(j) : j \in {j \in 1..Len(nd.ops) : Available(nd.ops[j], i, prev)}}
         IN IF vs = {} THEN {Poison} ELSE vs
  ELSE IF nd.op = "Select" THEN {val(2), val(3)}
  ELSE IF isBinary(nd.op)
    THEN IF val(1) = Poison \/ val(2) = Poison THEN {Poison}
         ELSE {EvalBinary(nd, val(1), val(2))}
  ELSE IF val(1) = Poison THEN {Poison}
  ELSE {EvalUnary(nd, nd.ops[1].w, val(1))}

RECURSIVE Pass(_, _, _, _)
Pass(i, cur, prev, env) ==
  IF i > Len(g) THEN {cur}
  ELSE UNION {Pass(i + 1, Append(cur, v), prev, env) : v \in InstValues(i, cur, prev, env)}

\* Every value tuple some execution reaches: the first pass, then passes
\* around the loop until nothing new appears.
RECURSIVE Closure(_, _)
Closure(S, env) ==
  LET T == S \cup UNION {Pass(1, << >>, p, env) : p \in S}
  IN IF T = S THEN S ELSE Closure(T, env)

hasBackEdge ==
  \E i \in 1..Len(g) : \E j \in 1..Len(g[i].ops) :
     isOperator(g[i].ops[j]) /\ g[i].ops[j].k >= i

Reach(env) ==
  IF hasBackEdge THEN Closure(Pass(1, << >>, << >>, env), env)
  ELSE Pass(1, << >>, << >>, env)

ArgsUsed ==
  {v \in UNION {{g[i].ops[j] : j \in 1..Len(g[i].ops)} : i \in 1..Len(g)} : isArgument(v)}

Envs == {e \in [ArgsUsed -> 0..AllOnesValue(MaxWidth)] :
           \A a \in ArgsUsed : e[a] <= AllOnesValue(a.w)}

\* The defined values instruction i takes over all executions.
ConcreteValues(i) ==
  UNION {{s[i] : s \in Reach(env)} : env \in Envs} \ {Poison}


(***************************************************************************)
(* The operand graphs the queries are asked about.  A graph is built one   *)
(* instruction at a time; the last instruction is the value queried.  The  *)
(* larger the graph, the smaller the menu its instructions are drawn from: *)
(* a graph of n instructions has all of them in the menu of size n.        *)
(***************************************************************************)
BinaryOps == {"And", "Or", "Xor", "Add", "Sub", "Mul", "UDiv", "SDiv", "URem",
              "SRem", "Shl", "LShr", "AShr"}
CountOps == {"ctlz", "cttz", "ctpop"}

\* The flag sets an opcode can carry.
FlagSets(op) ==
  CASE op \in {"Add", "Sub", "Mul", "Shl"} -> {{}, {"nsw"}, {"nuw"}}
    [] op \in {"UDiv", "SDiv", "LShr", "AShr"} -> {{}, {"exact"}}
    [] op \in {"ctlz", "cttz"} -> {{}, {"zero_undef"}}
    [] OTHER -> {{}}

\* The flags ComputeMaskedBits reads, and the opcodes it has a case for.
BitsFlagSets(op) == {f \in FlagSets(op) : f \subseteq {"nsw", "zero_undef"}}
BitsBinaryOps == BinaryOps \ {"SDiv"}

\* Leaves of width w in the menu of size n, and those a two-operand
\* instruction takes on the left: in a graph of two or more instructions the
\* right operand is a constant 1..3 and the left one an argument, the constant
\* 1 or an instruction (or the two swapped, the instruction on the right).
LeafConstants(w, n) ==
  IF n <= 1 THEN 0..AllOnesValue(w) ELSE {c \in 1..3 : c <= AllOnesValue(w)}

Leaves(w, n) ==
  {ConstantInt(w, c) : c \in LeafConstants(w, n)}
    \cup {Argument(w, 0)}
    \cup (IF w = BitWidth /\ n <= 1 THEN {Argument(w, 1)} ELSE {})

LeftLeaves(w, n) ==
  IF n <= 1 THEN Leaves(w, n) ELSE {ConstantInt(w, 1), Argument(w, 0)}

RightLeaves(w, n) ==
  IF n <= 1 THEN Leaves(w, n) ELSE {ConstantInt(w, c) : c \in LeafConstants(w, n)}

\* The condition of a select: an i1 argument, never looked at.
Cond == Argument(1, 0)

Instruction(op, w, ops, f) == [op |-> op, w |-> w, ops |-> ops, f |-> f]

\* Every instruction of the table is in the menu of size n.
InMenu(n) ==
  \A i \in 1..Len(g) : \A j \in 1..Len(g[i].ops) :
     LET v == g[i].ops[j]
         left == j < Len(g[i].ops) \/ Len(g[i].ops) = 1
     IN \/ isOperator(v)
        \/ v = Cond
        \/ IF g[i].op = "PHI" \/ (left /\ ~isOperator(g[i].ops[Len(g[i].ops)]))
             THEN v \in LeftLeaves(v.w, n)
             ELSE v \in RightLeaves(v.w, n)

Insts(w) == {Inst(w, j) : j \in {j \in 1..Len(g) : g[j].w = w}}

\* The operand pairs offered to the next two-operand instruction; every
\* instruction after the first uses the one before it.
UsesLast(ops) ==
  g = << >> \/ \E j \in 1..Len(ops) : isOperator(ops[j]) /\ ops[j].k = Len(g)

Lefts(w) == LeftLeaves(w, Len(g) + 1) \cup Insts(w)
Rights(w) == IF g = << >> THEN Leaves(w, Len(g) + 1) ELSE RightLeaves(w, Len(g) + 1)

Pairs(w) ==
  {p \in Lefts(w) \X Rights(w) : UsesLast(p)}
    \cup {<<p[2], p[1]>> : p \in {p \in Insts(w) \X Rights(w) : UsesLast(p)}}

\* Every operand names an instruction of the table, of the operand's width.
WellFormed ==
  \A i \in 1..Len(g) : \A j \in 1..Len(g[i].ops) :
     LET v == g[i].ops[j]
     IN isOperator(v) => v.k <= Len(g) /\ g[v.k].w = v.w

\* A PHI that names the next instruction is waiting for it.
Pending(nd) ==
  \A i \in 1..Len(g) : \A j \in 1..Len(g[i].ops) :
     LET v == g[i].ops[j]
     IN isOperator(v) /\ v.k > Len(g) => v.w = nd.w /\ nd.op \in BinaryOps

Depths == 0..MaxDepth
Masks(w) == 0..AllOnesValue(w)

Idle == kind = "none" /\ depth = 0 /\ nest = 0 /\ path = 0

\* No value picked yet.
NoValue == [t |-> "none", w |-> 0, k |-> 0]

Init ==
  /\ g = << >>
  /\ root = NoValue
  /\ pc = "build"
  /\ fn = "none"
  /\ res = << >>
  /\ Idle

Emit(nd) ==
  /\ pc = "build"
  /\ Len(g) < MaxInsts
  /\ InMenu(Len(g) + 1)
  /\ Pending(nd)
  /\ g' = Append(g, nd)
  /\ UNCHANGED <<root, pc, fn, res, kind, depth, nest, path>>

AddBinaryOperator ==
  \E op \in BitsBinaryOps : \E f \in BitsFlagSets(op) : \E p \in Pairs(BitWidth) :
    Emit(Instruction(op, BitWidth, p, f))

\* The same with every flag the predicate queries read, and sdiv.
AddFlaggedBinaryOperator ==
  \E op \in BinaryOps : \E f \in FlagSets(op) : \E p \in Pairs(BitWidth) :
    Emit(Instruction(op, BitWidth, p, f))

\* Chains: every instruction a ChainOps operator on the instruction before it
\* and a constant.
ChainOps == {"Shl", "SRem", "Xor"}

isChain ==
  \A i \in 1..Len(g) :
    /\ g[i].op \in ChainOps /\ g[i].f = {}
    /\ isConstantInt(g[i].ops[2])
    /\ i > 1 => g[i].ops[1] = Inst(BitWidth, i - 1)

AddChained ==
  /\ pc = "build"
  /\ Len(g) >= MaxInsts /\ Len(g) < MaxChain
  /\ isChain
  /\ \E op \in ChainOps : \E c \in RightLeaves(BitWidth, Len(g) + 1) :
       g' = Append(g, Instruction(op, BitWidth, <<Inst(BitWidth, Len(g)), c>>, {}))
  /\ UNCHANGED <<root, pc, fn, res, kind, depth, nest, path>>

AddCast ==
  \/ \E op \in {"ZExt", "SExt"} : \E a \in Lefts(SrcBitWidth) :
       UsesLast(<<a>>) /\ Emit(Instruction(op, BitWidth, <<a>>, {}))
  \/ \E a \in Lefts(BitWidth) :
       UsesLast(<<a>>) /\ Emit(Instruction("Trunc", SrcBitWidth, <<a>>, {}))

AddSelect ==
  \E p \in Pairs(BitWidth) : Emit(Instruction("Select", BitWidth, <<Cond>> \o p, {}))

AddIntrinsic ==
  \E op \in CountOps : \E f \in BitsFlagSets(op) : \E a \in Lefts(BitWidth) :
    UsesLast(<<a>>) /\ Emit(Instruction(op, BitWidth, <<a>>, f))

\* A PHI may name itself and, when one more instruction can follow, that one.
AddPHI ==
  LET i == Len(g) + 1
      in == Lefts(BitWidth) \cup {Inst(BitWidth, i)}
              \cup (IF i < MaxInsts THEN {Inst(BitWidth, i + 1)} ELSE {})
  IN \E ops \in {<< >>} \cup {<<a>> : a \in in} \cup (in \X in) :
       /\ g = << >> \/ UsesLast(ops)
       /\ Emit(Instruction("PHI", BitWidth, ops, {}))

\* The caller picks the value to ask about: a leaf, the last instruction of
\* the graph or, in a graph with a loop, any instruction.
Ask ==
  /\ pc = "build"
  /\ WellFormed
  /\ root' \in IF g = << >>
                THEN Leaves(BitWidth, 0) \cup Leaves(SrcBitWidth, 0)
                ELSE {Inst(g[i].w, i) : i \in {i \in 1..Len(g) : i = Len(g) \/ hasBackEdge}}
  /\ pc' = "ready"
  /\ UNCHANGED <<g, fn, res, kind, depth, nest, path>>

Finish(f, r) ==
  /\ pc = "ready"
  /\ pc' = "done"
  /\ fn' = f
  /\ res' = r
  /\ UNCHANGED <<g, root, kind, depth, nest, path>>

QueryComputeMaskedBits ==
  Finish("ComputeMaskedBits",
         [d \in Depths |-> [m \in Masks(MaskBitWidth(root)) |-> ComputeMaskedBits(root, m, 0, 0, d)]])

QueryComputeSignBit ==
  Finish("ComputeSignBit", [d \in Depths |-> ComputeSignBit(root, d)])

QueryIsPowerOfTwo ==
  Finish("isPowerOfTwo",
         [d \in Depths |-> [OrZero \in BOOLEAN |-> isPowerOfTwo(root, OrZero, d)]])

QueryIsKnownNonZero ==
  Finish("isKnownNonZero", [d \in Depths |-> isKnownNonZero(root, d)])

Next ==
  \/ AddBinaryOperator
  \/ AddCast
  \/ AddSelect
  \/ AddIntrinsic
  \/ AddPHI
  \/ Ask
  \/ QueryComputeMaskedBits
  \/ QueryComputeSignBit

Spec == Init /\ [][Next]_vars

\* The predicate queries, over graphs with every flag and over chains.
NextPredicates ==
  \/ AddFlaggedBinaryOperator
  \/ AddCast
  \/ AddSelect
  \/ AddIntrinsic
  \/ AddPHI
  \/ AddChained
  \/ Ask
  \/ QueryIsPowerOfTwo
  \/ QueryIsKnownNonZero

SpecPredicates == Init /\ [][NextPredicates]_vars

(***************************************************************************)
(* ComputeNumSignBits, asked about graphs whose PHIs have incoming values. *)
(***************************************************************************)
\* A PHI with one or two incoming values.
AddIncomingPHI ==
  LET i == Len(g) + 1
      in == Lefts(BitWidth) \cup {Inst(BitWidth, i)}
              \cup (IF i < MaxInsts THEN {Inst(BitWidth, i + 1)} ELSE {})
  IN \E ops \in {<<a>> : a \in in} \cup (in \X in) :
       /\ g = << >> \/ UsesLast(ops)
       /\ Emit(Instruction("PHI", BitWidth, ops, {}))

\* add X, -1 and sub 0, X on the last instruction.
AddDecrementOrNeg ==
  /\ g # << >>
  /\ g[Len(g)].w = BitWidth
  /\ LET X == Inst(BitWidth, Len(g))
     IN \/ Emit(Instruction("Add", BitWidth, <<X, ConstantInt(BitWidth, AllOnesValue(BitWidth))>>, {}))
        \/ Emit(Instruction("Sub", BitWidth, <<ConstantInt(BitWidth, 0), X>>, {}))

\* A chain grown by one And with the constant as operand 0.
AddMaskOfChain ==
  /\ pc = "build"
  /\ Len(g) >= MaxInsts /\ Len(g) < MaxChain
  /\ isChain
  /\ \E c \in RightLeaves(BitWidth, Len(g) + 1) :
       g' = Append(g, Instruction("And", BitWidth, <<c, Inst(BitWidth, Len(g))>>, {}))
  /\ UNCHANGED <<root, pc, fn, res, kind, depth, nest, path>>

QueryComputeNumSignBits ==
  Finish("ComputeNumSignBits", [d \in Depths |-> ComputeNumSignBits(root, d)])

NextSignBits ==
  \/ AddBinaryOperator
  \/ AddDecrementOrNeg
  \/ AddCast
  \/ AddSelect
  \/ AddIncomingPHI
  \/ AddMaskOfChain
  \/ Ask
  \/ QueryComputeNumSignBits

SpecSignBits == Init /\ [][NextSignBits]_vars

(***************************************************************************)
(* GetStringLength, asked about pointers into the global variables.        *)
(***************************************************************************)
\* The largest second index of a GEP and the lengths a read past the array
\* may lead to.
MaxIndex == 4
MaxBeyond == 2

\* The outcomes of the read past the operands of the array: the run aborts,
\* or the traversal ends with some length.
BeyondOutcomes ==
  {[ok |-> FALSE, Len |-> 0]} \cup {[ok |-> TRUE, Len |-> n] : n \in 0..MaxBeyond}

\* GetStringLengthWalk handing the sentinel of an infinite PHI cycle back.
GetStringLengthKeepingSentinel(V, Beyond) ==
  IF V.w # 0 THEN [ok |-> TRUE, Len |-> 0, walked |-> << >>]
  ELSE LET r == GetStringLengthH(V, NoPHIs, Beyond)
       IN [ok |-> r.ok, Len |-> r.Len, walked |-> r.PHIs.walked]

\* uint64_t llvm::GetStringLength(Value *V), with the log of the walks.
GetStringLengthWalk(V, Beyond) ==
  IF V.w # 0 THEN [ok |-> TRUE, Len |-> 0, walked |-> << >>]
  ELSE LET r == GetStringLengthH(V, NoPHIs, Beyond)
       IN [ok |-> r.ok, Len |-> IF r.Len = AlreadySeen THEN 1 ELSE r.Len,
           walked |-> r.PHIs.walked]

GetStringLength(V, Beyond) ==
  IF V.w # 0 THEN [ok |-> TRUE, Len |-> 0]
  ELSE LET r == GetStringLengthH(V, NoPHIs, Beyond)
       IN [ok |-> r.ok, Len |-> IF r.Len = AlreadySeen THEN 1 ELSE r.Len]

Pointers == {Inst(0, j) : j \in 1..Len(g)}
PointerLeaves == {GlobalVariable(4), GlobalVariable(10), GlobalVariable(11), Argument(0, 0)}

EmitPointer(op, ops) ==
  /\ pc = "build"
  /\ g' = Append(g, Instruction(op, 0, ops, {}))
  /\ UNCHANGED <<root, pc, fn, res, kind, depth, nest, path>>

\* getelementptr G, 0, S for every global and start, and the shapes the
\* function turns away.
AddGEP ==
  /\ Len(g) < MaxInsts
  /\ \/ \E n \in 1..Len(GlobalVariables) : \E S \in 0..MaxIndex :
          EmitPointer("GetElementPtr",
                      <<GlobalVariable(n), ConstantInt(BitWidth, 0), ConstantInt(BitWidth, S)>>)
     \/ \E Idx \in {ConstantInt(BitWidth, 1), Argument(BitWidth, 0)} :
          EmitPointer("GetElementPtr",
                      <<GlobalVariable(1), Idx, ConstantInt(BitWidth, 0)>>)
     \/ EmitPointer("GetElementPtr",
                    <<GlobalVariable(1), ConstantInt(BitWidth, 0), Argument(BitWidth, 0)>>)
     \/ EmitPointer("GetElementPtr", <<GlobalVariable(1), ConstantInt(BitWidth, 0)>>)
     \/ \E V \in Pointers \cup {Argument(0, 0)} :
          EmitPointer("GetElementPtr", <<V, ConstantInt(BitWidth, 0), ConstantInt(BitWidth, 0)>>)

\* The instructions that join pointers come after the GEPs: the next one
\* uses the last instruction, and a third one joins two GEPs.
Joins(ops) ==
  /\ Len(g) < MaxChain
  /\ UsesLast(ops)
  /\ Len(g) = MaxInsts => \A j \in 1..Len(g) : g[j].op = "GetElementPtr"

AddBitCast ==
  \E V \in Pointers \cup PointerLeaves :
    (g = << >> \/ Joins(<<V>>)) /\ EmitPointer("BitCast", <<V>>)

AddPointerSelect ==
  \E p \in (Pointers \cup PointerLeaves) \X (Pointers \cup PointerLeaves) :
    (g = << >> \/ Joins(p)) /\ EmitPointer("Select", <<Cond>> \o p)

\* A PHI of pointers may name itself.
AddPointerPHI ==
  LET in == Pointers \cup PointerLeaves \cup {Inst(0, Len(g) + 1)}
  IN \E ops \in {<< >>} \cup {<<a>> : a \in in} \cup (in \X in) :
       (g = << >> \/ Joins(ops)) /\ EmitPointer("PHI", ops)

QueryGetStringLength ==
  Finish("GetStringLength", [Beyond \in BeyondOutcomes |-> GetStringLength(root, Beyond)])

NextStrings ==
  \/ AddGEP
  \/ AddBitCast
  \/ AddPointerSelect
  \/ AddPointerPHI
  \/ Ask
  \/ QueryGetStringLength

SpecStrings == Init /\ [][NextStrings]_vars

(***************************************************************************)
(* ComputeMaskedBits, asked about two-predecessor recurrences              *)
(*   R ; P = phi [R], [LU] ; LU = P op L.                                  *)
(***************************************************************************)
\* The constants of a recurrence: start values and strides.
MaxStride == 8
Strides == {c \in 0..MaxStride : c \in {0, 1, 2, 4, 8}}
StartOps == {"And", "Or", "Add", "Sub", "Mul", "Shl", "Xor"}
StepOps == {"Add", "Sub", "And", "Or", "Mul", "Xor"}
RecurrenceLeaves == {ConstantInt(BitWidth, c) : c \in Strides} \cup {Argument(BitWidth, 0)}

AppendInstruction(nd) ==
  /\ pc = "build"
  /\ g' = Append(g, nd)
  /\ UNCHANGED <<root, pc, fn, res, kind, depth, nest, path>>

\* The start value as an instruction of its own.
AddStart ==
  /\ g = << >>
  /\ \E op \in StartOps : \E c \in Strides :
       AppendInstruction(Instruction(op, BitWidth,
                                     <<Argument(BitWidth, 0), ConstantInt(BitWidth, c)>>, {}))

\* The PHI, its start value and the step that follows it in either order.
AddRecurrencePHI ==
  /\ Len(g) <= 1
  /\ \A j \in 1..Len(g) : g[j].op # "PHI"
  /\ LET LU == Inst(BitWidth, Len(g) + 2)
     IN \E R \in (IF g = << >> THEN RecurrenceLeaves ELSE {Inst(BitWidth, 1)}) :
          \E ops \in {<<R, LU>>, <<LU, R>>} :
            AppendInstruction(Instruction("PHI", BitWidth, ops, {}))

\* The step P op L or L op P.
AddStep ==
  /\ g # << >>
  /\ g[Len(g)].op = "PHI"
  /\ LET P == Inst(BitWidth, Len(g))
     IN \E op \in StepOps : \E L \in RecurrenceLeaves :
          \E ops \in {<<P, L>>, <<L, P>>} :
            AppendInstruction(Instruction(op, BitWidth, ops, {}))

NextRecurrence ==
  \/ AddStart
  \/ AddRecurrencePHI
  \/ AddStep
  \/ Ask
  \/ QueryComputeMaskedBits

SpecRecurrence == Init /\ [][NextRecurrence]_vars

(***************************************************************************)
(* The queries asked about pointers, with no TargetData.                   *)
(***************************************************************************)
LayoutIndices == {ConstantInt(BitWidth, 0), ConstantInt(BitWidth, 2), Argument(BitWidth, 0)}
LayoutPointers == Pointers \cup {GlobalVariable(1), GlobalVariable(9), Argument(0, 0)}

\* A GEP with one index, or with two, the second one into an array or a
\* struct.
AddLayoutGEP ==
  /\ Len(g) < MaxInsts
  /\ \E V \in LayoutPointers : \E Idx \in LayoutIndices :
       /\ g = << >> \/ UsesLast(<<V>>)
       /\ \/ AppendInstruction(Instruction("GetElementPtr", 0, <<V, Idx>>, {}))
          \/ \E CI \in LayoutIndices :
               AppendInstruction(Instruction("GetElementPtr", 0, <<V, Idx, CI>>, {}))
          \/ \E CI \in {ConstantInt(BitWidth, 0), ConstantInt(BitWidth, 1)} :
               AppendInstruction(Instruction("GetElementPtr", 0, <<V, Idx, CI>>, {"struct"}))

\* inttoptr, ptrtoint and the bitcast of a pointer.
AddPointerCast ==
  /\ Len(g) < MaxInsts
  /\ \/ \E a \in {Argument(BitWidth, 0), ConstantInt(BitWidth, 4)} \cup Insts(BitWidth) :
          (g = << >> \/ UsesLast(<<a>>))
            /\ AppendInstruction(Instruction("IntToPtr", 0, <<a>>, {}))
     \/ \E V \in LayoutPointers : \E op \in {"PtrToInt", "BitCast"} :
          (g = << >> \/ UsesLast(<<V>>))
            /\ AppendInstruction(Instruction(op, IF op = "PtrToInt" THEN BitWidth ELSE 0,
                                             <<V>>, {}))

\* A select of two pointers.
AddLayoutSelect ==
  /\ Len(g) < MaxInsts
  /\ \E p \in LayoutPointers \X LayoutPointers :
       (g = << >> \/ UsesLast(p))
         /\ AppendInstruction(Instruction("Select", 0, <<Cond>> \o p, {}))

NextLayout ==
  \/ AddLayoutGEP
  \/ AddPointerCast
  \/ AddLayoutSelect
  \/ Ask
  \/ QueryComputeMaskedBits
  \/ QueryComputeSignBit
  \/ QueryIsKnownNonZero

SpecLayout == Init /\ [][NextLayout]_vars

(***************************************************************************)
(* ComputeMultiple, asked about products, shifts and extensions of either  *)
(* width.                                                                  *)
(***************************************************************************)
\* The bases asked about.
MaxBase == 4
Bases == 0..MaxBase

\* A mul or a shl of either width.
AddFactor ==
  \E w \in {SrcBitWidth, BitWidth} : \E op \in {"Mul", "Shl"} :
    \E f \in FlagSets(op) : \E p \in Pairs(w) :
      Emit(Instruction(op, w, p, f))

QueryComputeMultiple ==
  Finish("ComputeMultiple",
         [d \in Depths |-> [Base \in Bases |-> [LookThroughSExt \in BOOLEAN |->
            ComputeMultiple(root, Base, LookThroughSExt, d)]]])

NextMultiple ==
  \/ AddFactor
  \/ AddCast
  \/ Ask
  \/ QueryComputeMultiple

SpecMultiple == Init /\ [][NextMultiple]_vars

(***************************************************************************)
(* The chain of nested calls.  The machine follows one chain of calls      *)
(* through an operand graph that is chosen as the chain grows: each call   *)
(* names the function entered, the kind of value it is given and its Depth *)
(* argument.  A failed assertion aborts a build with assertions and is     *)
(* passed over by a build without them.                                    *)
(***************************************************************************)
Queries == {"ComputeMaskedBits", "ComputeSignBit", "isKnownNonZero", "isPowerOfTwo",
            "MaskedValueIsZero", "ComputeNumSignBits", "ComputeMultiple"}

ConstantKinds == {"ConstantInt", "ConstantVector", "GlobalValue", "GlobalAlias",
                  "ConstantExpr"}
Kinds == ConstantKinds \cup {"Argument", "Instruction", "PHI"}

\* The operands of a value of kind k: a constant has constant operands.
OperandKinds(k) == IF k = "ConstantExpr" THEN ConstantKinds ELSE Kinds
ElementKinds == ConstantKinds \ {"ConstantVector"}
AliaseeKinds == {"GlobalValue", "GlobalAlias", "ConstantExpr"}

\* dyn_cast<Operator>: instructions (PHI has a case of its own) and constant
\* expressions.
isOperatorKind(k) == k \in {"Instruction", "ConstantExpr"}

\* The GlobalAlias case of ComputeMaskedBits is taken for a global alias:
\* the GlobalValue case before it is the case of global variables and
\* functions.
TakesAliasCase(k) == k = "GlobalAlias"

\* The cases of ComputeMaskedBits that come after the depth test.
PastDepthTest == depth # MaxDepth

InitCalls ==
  /\ g = << >>
  /\ root = NoValue
  /\ res = << >>
  /\ pc = "entered"
  /\ fn \in Queries
  /\ kind \in Kinds
  /\ depth = 0
  /\ nest = 1
  /\ path = 1

\* The entered function calls f on a value of kind k with Depth d; hop is 1
\* when the value is an operand, 0 when it is the caller's own value.
Call(f, k, d, hop) ==
  /\ pc = "entered"
  /\ path + hop <= MaxPath
  /\ fn' = f
  /\ kind' = k
  /\ depth' = d
  /\ nest' = nest + 1
  /\ path' = path + hop
  /\ UNCHANGED <<g, root, pc, res>>

In(f) == pc = "entered" /\ fn = f

CallVectorElement ==
  /\ In("ComputeMaskedBits") /\ kind = "ConstantVector"
  /\ \E k \in ElementKinds : Call("ComputeMaskedBits", k, depth, 1)

CallAliasee ==
  /\ In("ComputeMaskedBits") /\ TakesAliasCase(kind)
  /\ \E k \in AliaseeKinds : Call("ComputeMaskedBits", k, depth + 1, 1)

CallOperand ==
  /\ In("ComputeMaskedBits") /\ isOperatorKind(kind) /\ PastDepthTest
  /\ \E k \in OperandKinds(kind) : Call("ComputeMaskedBits", k, depth + 1, 1)

CallIsKnownNonZeroOfFactor ==
  /\ In("ComputeMaskedBits") /\ isOperatorKind(kind) /\ PastDepthTest
  /\ \E k \in OperandKinds(kind) : Call("isKnownNonZero", k, depth, 1)

CallPHIRecurrence ==
  /\ In("ComputeMaskedBits") /\ kind = "PHI" /\ PastDepthTest
  /\ \E k \in Kinds : Call("ComputeMaskedBits", k, depth + 1, 1)

CallPHIIncoming ==
  /\ In("ComputeMaskedBits") /\ kind = "PHI" /\ PastDepthTest
  /\ depth < MaxDepth - 1
  /\ \E k \in Kinds : Call("ComputeMaskedBits", k, MaxDepth - 1, 1)

SignBitCallsMaskedBits ==
  /\ In("ComputeSignBit")
  /\ Call("ComputeMaskedBits", kind, depth, 0)

MaskedValueIsZeroCallsMaskedBits ==
  /\ In("MaskedValueIsZero")
  /\ Call("ComputeMaskedBits", kind, depth, 0)

\* isKnownNonZero answers for a constant at once; otherwise Depth++ >= MaxDepth
\* ends it.
NonZeroRecurses == In("isKnownNonZero") /\ kind \notin ConstantKinds /\ depth < MaxDepth

NonZeroCallsNonZero ==
  /\ NonZeroRecurses /\ kind = "Instruction"
  /\ \E k \in Kinds : Call("isKnownNonZero", k, depth + 1, 1)

NonZeroCallsSignBit ==
  /\ NonZeroRecurses /\ kind = "Instruction"
  /\ \E k \in Kinds : Call("ComputeSignBit", k, depth + 1, 1)

NonZeroCallsPowerOfTwo ==
  /\ NonZeroRecurses /\ kind = "Instruction"
  /\ \E k \in Kinds : Call("isPowerOfTwo", k, depth + 1, 1)

NonZeroCallsMaskedBits ==
  /\ NonZeroRecurses
  /\ \/ Call("ComputeMaskedBits", kind, depth + 1, 0)
     \/ /\ kind = "Instruction"
        /\ \E k \in Kinds : Call("ComputeMaskedBits", k, depth + 1, 1)

PowerOfTwoCallsPowerOfTwo ==
  /\ In("isPowerOfTwo") /\ isOperatorKind(kind) /\ depth # MaxDepth
  /\ \E k \in OperandKinds(kind) : Call("isPowerOfTwo", k, depth + 1, 1)

NumSignBitsCallsNumSignBits ==
  /\ In("ComputeNumSignBits") /\ (isOperatorKind(kind) \/ kind = "PHI") /\ depth # 6
  /\ \E k \in OperandKinds(kind) : Call("ComputeNumSignBits", k, depth + 1, 1)

NumSignBitsCallsMaskedBits ==
  /\ In("ComputeNumSignBits") /\ depth # 6
  /\ \/ Call("ComputeMaskedBits", kind, depth, 0)
     \/ /\ isOperatorKind(kind)
        /\ \E k \in OperandKinds(kind) : Call("ComputeMaskedBits", k, depth + 1, 1)

MultipleCallsMultiple ==
  /\ In("ComputeMultiple") /\ isOperatorKind(kind) /\ depth # MaxDepth
  /\ \E k \in OperandKinds(kind) : Call("ComputeMultiple", k, depth + 1, 1)

\* assert(Depth <= MaxDepth && "Limit Search Depth") in a build with assertions.
LimitSearchDepthFails ==
  /\ In("ComputeMaskedBits") /\ depth > MaxDepth
  /\ pc' = "abort"
  /\ UNCHANGED <<g, root, fn, res, kind, depth, nest, path>>

\* The innermost call makes no further call: the chain is complete.
Return ==
  /\ pc = "entered"
  /\ pc' = "returned"
  /\ UNCHANGED <<g, root, fn, res, kind, depth, nest, path>>

NextCalls ==
  \/ CallVectorElement
  \/ CallAliasee
  \/ CallOperand
  \/ CallIsKnownNonZeroOfFactor
  \/ CallPHIRecurrence
  \/ CallPHIIncoming
  \/ SignBitCallsMaskedBits
  \/ MaskedValueIsZeroCallsMaskedBits
  \/ NonZeroCallsNonZero
  \/ NonZeroCallsSignBit
  \/ NonZeroCallsPowerOfTwo
  \/ NonZeroCallsMaskedBits
  \/ PowerOfTwoCallsPowerOfTwo
  \/ NumSignBitsCallsNumSignBits
  \/ NumSignBitsCallsMaskedBits
  \/ MultipleCallsMultiple
  \/ LimitSearchDepthFails
  \/ Return

SpecCalls == InitCalls /\ [][NextCalls]_vars

(***************************************************************************)
(* What the executions say about the value asked about.                    *)
(***************************************************************************)
ConcreteOf(v) ==
  IF isConstantInt(v) THEN {v.k}
  ELSE IF isArgument(v) THEN 0..AllOnesValue(v.w)
  ELSE ConcreteValues(v.k)

\* The bits that are 0 (resp. 1) in every value of vals, from bit b down.
RECURSIVE AlwaysZero(_, _)
AlwaysZero(vals, b) ==
  IF b < 0 THEN 0
  ELSE (IF \A c \in vals : ~TestBit(c, b) THEN Pow2(b) ELSE 0) + AlwaysZero(vals, b - 1)

RECURSIVE AlwaysOne(_, _)
AlwaysOne(vals, b) ==
  IF b < 0 THEN 0
  ELSE (IF \A c \in vals : TestBit(c, b) THEN Pow2(b) ELSE 0) + AlwaysOne(vals, b - 1)

Subset(a, b) == BAnd(a, b) = a

Answered(f) == pc = "done" /\ fn = f

(***************************************************************************)
(* C1: soundness of ComputeMaskedBits.  For every graph, mask and start    *)
(* depth, each bit inside the mask that the result marks known-zero is 0   *)
(* in every defined concrete value of V, and each bit inside the mask      *)
(* marked known-one is 1.                                                  *)
(***************************************************************************)
C1_Soundness ==
  Answered("ComputeMaskedBits") =>
    LET vals == ConcreteOf(root)
        zeros == AlwaysZero(vals, root.w - 1)
        ones == AlwaysOne(vals, root.w - 1)
    IN \A d \in Depths : \A m \in Masks(root.w) :
         /\ Subset(BAnd(res[d][m].z, m), zeros)
         /\ Subset(BAnd(res[d][m].o, m), ones)

(***************************************************************************)
(* C2: disjointness.  Every (KnownZero, KnownOne) pair ComputeMaskedBits   *)
(* returns, at the top level and from every nested call, is disjoint, so   *)
(* no "Bits known to be one AND zero?" assertion fails; ComputeSignBit     *)
(* never reports both flags.                                               *)
(***************************************************************************)
C2_Disjoint ==
  /\ Answered("ComputeMaskedBits") =>
       \A d \in Depths : \A m \in Masks(root.w) :
          res[d][m].ok /\ BAnd(res[d][m].z, res[d][m].o) = 0
  /\ Answered("ComputeSignBit") =>
       \A d \in Depths : res[d].ok /\ ~(res[d].z /\ res[d].o)

C2_Witness ==
  /\ Answered("ComputeMaskedBits")
  /\ Opcode(root) = "Xor"
  /\ isOperator(getOperand(root, 0))
  /\ res[0][AllOnesValue(root.w)].z # 0
  /\ res[0][AllOnesValue(root.w)].o # 0

(***************************************************************************)
(* C5: constant exactness.  For a constant C, any mask M and any depth,    *)
(* KnownOne = C & M and KnownZero = ~C & M.                                *)
(***************************************************************************)
C5_ConstantExact ==
  Answered("ComputeMaskedBits") /\ isConstantInt(root) =>
    \A d \in Depths : \A m \in Masks(root.w) :
       /\ res[d][m].o = BAnd(root.k, m)
       /\ res[d][m].z = BAnd(BNot(root.w, root.k), m)

C5_Witness ==
  /\ Answered("ComputeMaskedBits")
  /\ isConstantInt(root)
  /\ \E m \in Masks(root.w) \ {AllOnesValue(root.w)} :
        res[MaxDepth][m].z # 0 /\ res[MaxDepth][m].o # 0

(***************************************************************************)
(* C6: AND/OR duality.  For V = a AND b under the all-ones mask at depth   *)
(* 0, KnownZero(V) is a superset of KnownZero(a) | KnownZero(b) and        *)
(* KnownOne(V) a subset of KnownOne(a) & KnownOne(b), each operand being   *)
(* queried on its own under the all-ones mask; dually for V = a OR b.      *)
(***************************************************************************)
OnItsOwn(v) == ComputeMaskedBits(v, AllOnesValue(v.w), 0, 0, 0)

SecondOperand(v) == ComputeMaskedBits(getOperand(v, 1), AllOnesValue(v.w), 0, 0, 1)

FirstOperand(v) ==
  LET b == SecondOperand(v)
      known == IF Opcode(v) = "And" THEN b.z ELSE b.o
  IN ComputeMaskedBits(getOperand(v, 0), BNot(v.w, known), 0, 0, 1)

isShlByConstant(v) ==
  /\ Opcode(v) = "Shl"
  /\ isConstantInt(getOperand(v, 1))
  /\ getOperand(v, 1).k <= v.w

C7_ShlExact ==
  Answered("ComputeMaskedBits") /\ isShlByConstant(root) =>
    LET w == root.w
        s == getOperand(root, 1).k
    IN \A d \in 0..(MaxDepth - 1) : \A m \in Masks(w) \ {0} :
         LET r == res[d][m]
             x == ComputeMaskedBits(getOperand(root, 0), LShr(w, m, s), 0, 0, d + 1)
         IN /\ Subset(getLowBitsSet(w, s), r.z)
            /\ BAnd(r.o, getLowBitsSet(w, s)) = 0
            /\ \A p \in s..(w - 1) :
                 /\ TestBit(r.z, p) <=> TestBit(x.z, p - s)
                 /\ TestBit(r.o, p) <=> TestBit(x.o, p - s)

C7_Witness ==
  /\ Answered("ComputeMaskedBits")
  /\ isShlByConstant(root)
  /\ isOperator(getOperand(root, 0))
  /\ getOperand(root, 1).k > 0
  /\ \E p \in getOperand(root, 1).k..(root.w - 1) :
        TestBit(res[0][AllOnesValue(root.w)].o, p)

(***************************************************************************)
(* C8: isPowerOfTwo is monotone in OrZero.  For every value and depth, if  *)
(* isPowerOfTwo(V, OrZero=false) is true then isPowerOfTwo(V, OrZero=true) *)
(* is true.                                                                *)
(***************************************************************************)
C8_OrZeroMonotone ==
  Answered("isPowerOfTwo") => \A d \in Depths : res[d][FALSE] => res[d][TRUE]

C8_Witness ==
  /\ Answered("isPowerOfTwo")
  /\ Opcode(root) \in {"ZExt", "LShr", "UDiv"}
  /\ isOperator(getOperand(root, 0))
  /\ res[0][FALSE]
  /\ res[0][TRUE]

(***************************************************************************)
(* C9: soundness of isPowerOfTwo.  On graphs made of constants, shl, lshr, *)
(* ashr, and, neg, zext, select and exact lshr/udiv: when the answer with  *)
(* OrZero=false is true every defined value of V has exactly one bit set;  *)
(* when the answer with OrZero=true is true every defined value is zero or *)
(* has exactly one bit set.                                                *)
(***************************************************************************)
isNeg(nd) == nd.op = "Sub" /\ nd.ops[1] = ConstantInt(nd.w, 0)

InPowerOfTwoFragment ==
  \A i \in 1..Len(g) :
    \/ g[i].op \in {"Shl", "LShr", "AShr", "And", "ZExt", "Select"}
    \/ g[i].op = "UDiv" /\ "exact" \in g[i].f
    \/ isNeg(g[i])

C9_PowerOfTwoSound ==
  Answered("isPowerOfTwo") /\ InPowerOfTwoFragment =>
    LET vals == ConcreteOf(root)
    IN \A d \in Depths :
         /\ res[d][FALSE] => \A c \in vals : isPowerOf2(c)
         /\ res[d][TRUE] => \A c \in vals : c = 0 \/ isPowerOf2(c)

(***************************************************************************)
(* C10: soundness of isKnownNonZero.  Whenever the answer is true, no      *)
(* execution in which V is defined gives V the value zero.                 *)
(***************************************************************************)
C10_NonZeroSound ==
  Answered("isKnownNonZero") =>
    \A d \in Depths : res[d].b => 0 \notin ConcreteOf(root)

(***************************************************************************)
(* C3: termination.  The length of any chain of nested calls is bounded by *)
(* a constant that depends only on MaxDepth, not on the size of the graph. *)
(***************************************************************************)
\* At most four calls for each depth 0..MaxDepth.
ChainBound == 4 * (MaxDepth + 1)

SignBitsOf(w, c) ==
  IF isNegative(w, c) THEN countLeadingOnes(w, c) ELSE countLeadingZeros(w, c)

C12_NumSignBitsSound ==
  Answered("ComputeNumSignBits") =>
    \A d \in Depths : \A c \in ConcreteOf(root) : SignBitsOf(root.w, c) >= res[d]

\* A decrement or a negation of an instruction, answered by its special case.
C12_Witness ==
  /\ Answered("ComputeNumSignBits")
  /\ \/ Opcode(root) = "Add" /\ getOperand(root, 1) = ConstantInt(root.w, AllOnesValue(root.w))
                             /\ isOperator(getOperand(root, 0))
     \/ Opcode(root) = "Sub" /\ getOperand(root, 0) = ConstantInt(root.w, 0)
                             /\ isOperator(getOperand(root, 1))
  /\ res[0] > 1
  /\ ConcreteOf(root) # {}

(***************************************************************************)
(* C13: soundness of ComputeMultiple.  Whenever it returns true, in every  *)
(* execution in which V is defined V equals Base times the returned        *)
(* Multiple, computed in V's bit width, also when the match is found       *)
(* through zext (sext with LookThroughSExt), mul in either operand order   *)
(* and shl by a constant.                                                  *)
(***************************************************************************)
EnvsOver(A) == {e \in [A -> 0..AllOnesValue(MaxWidth)] :
                  \A a \in A : e[a] <= AllOnesValue(a.w)}

ValueIn(v, s, env) ==
  IF isConstantInt(v) THEN v.k
  ELSE IF isArgument(v) THEN env[v]
  ELSE s[v.k]

\* The values V and M take together, over all executions.
JointValues(V, M) ==
  LET A == ArgsUsed \cup {a \in {V, M} : isArgument(a)}
  IN UNION {{<<ValueIn(V, s, env), ValueIn(M, s, env)>> : s \in Reach(env)} :
              env \in EnvsOver(A)}

\* a = Base * b in width w, b of width mw taken zero- or sign-extended.
IsProduct(w, a, Base, mw, b) ==
  \/ a = (Base * b) % Pow2(w)
  \/ a = (Base * (Signed(mw, b) + Pow2(w))) % Pow2(w)

C13_MultipleSound ==
  Answered("ComputeMultiple") =>
    \A d \in Depths : \A Base \in Bases : \A LookThroughSExt \in BOOLEAN :
      LET r == res[d][Base][LookThroughSExt]
      IN r.b =>
           \A p \in JointValues(root, r.Multiple) :
              p[1] # Poison /\ p[2] # Poison =>
                IsProduct(root.w, p[1], Base, r.Multiple.w, p[2])

\* The GEPs the first half of the claim speaks of: three operands, first
\* index 0, constant second index, into a constant, initialised,
\* non-overridable global array of i8.
isStringGEP(V) ==
  /\ Opcode(V) = "GetElementPtr" /\ getNumOperands(V) = 3
  /\ isGlobalVariable(getOperand(V, 0))
  /\ getOperand(V, 1) = ConstantInt(BitWidth, 0)
  /\ isConstantInt(getOperand(V, 2))
  /\ LET GV == GlobalVariables[getOperand(V, 0).k]
     IN /\ GV.isConstant /\ GV.hasInitializer /\ ~GV.mayBeOverridden
        /\ GV.Initializer.c \in {"ConstantArray", "ConstantAggregateZero"}
        /\ GV.Initializer.bits = 8

\* (position of the first zero element at or after S) - S + 1, 0 when there
\* is none.
FirstZeroFrom(elts, S) ==
  LET zeros == {i \in S..(Len(elts) - 1) : elts[i + 1] = ConstantInt(8, 0)}
  IN IF zeros = {} THEN 0
     ELSE (CHOOSE i \in zeros : \A n \in zeros : i <= n) - S + 1

\* The arms of a select or PHI, each asked about on its own.
Arms(V) ==
  {getOperand(V, i) : i \in (IF Opcode(V) = "Select" THEN 1..2 ELSE 0..(getNumOperands(V) - 1))}
ArmLength(V, a, Beyond) ==
  GetStringLengthH(a, IF Opcode(V) = "PHI" THEN {V.k} ELSE {}, Beyond)
Resolved(V, Beyond) ==
  {ArmLength(V, a, Beyond).Len : a \in Arms(V)} \ {0, AlreadySeen}

C14_GEPPart ==
  Answered("GetStringLength") /\ isStringGEP(root) =>
    \A Beyond \in BeyondOutcomes :
       /\ res[Beyond].ok
       /\ res[Beyond].Len =
            FirstZeroFrom(GlobalVariables[getOperand(root, 0).k].Initializer.elts,
                          getOperand(root, 2).k)

C14_ArmsPart ==
  Answered("GetStringLength") /\ Opcode(root) \in {"Select", "PHI"} =>
    \A Beyond \in BeyondOutcomes :
       (\A a \in Arms(root) : ArmLength(root, a, Beyond).ok) =>
         /\ res[Beyond].ok
         /\ IF \E a \in Arms(root) : ArmLength(root, a, Beyond).Len = 0
              THEN res[Beyond].Len = 0
            ELSE IF Cardinality(Resolved(root, Beyond)) > 1 THEN res[Beyond].Len = 0
            ELSE \A n \in Resolved(root, Beyond) : res[Beyond].Len = n

\* C14: GetStringLength of a GEP with first index 0 and constant second
\* index S into a constant, initialised, non-overridable global i8 array is
\* (position of the first zero element at or after S) - S + 1, and 0 when
\* there is no such element; of a select or PHI it is the common length of
\* the arms that resolve when they agree, and 0 when an arm is unknown or two
\* arms differ.
C14_StringLength == C14_GEPPart /\ C14_ArmsPart

\* C15: the mask only limits the scope.  For every value, every depth and
\* every pair of masks M1 subset of M2, each bit inside M1 that
\* ComputeMaskedBits(V, M2) reports as known-zero or known-one is reported
\* the same way by ComputeMaskedBits(V, M1).
C15_MaskLimitsScope ==
  Answered("ComputeMaskedBits") =>
    \A d \in Depths : \A M2 \in Masks(root.w) :
      \A M1 \in {m \in Masks(root.w) : Subset(m, M2)} :
         /\ Subset(BAnd(res[d][M2].z, M1), res[d][M1].z)
         /\ Subset(BAnd(res[d][M2].o, M1), res[d][M1].o)

\* A urem whose divisor is a power-of-two constant.
isURemPow2(V) ==
  /\ Opcode(V) = "URem"
  /\ isConstantInt(getOperand(V, 1))
  /\ isPowerOf2(getOperand(V, 1).k)

\* C16: unsigned remainder by a power of two is exact.  For V = urem X, C
\* with C = 2^k a constant, any mask M and depth < MaxDepth, and X of any
\* kind, ComputeMaskedBits reports every bit of M at position >= k as
\* known-zero and the bits of M below position k exactly as they are known
\* for X.
C16_URemExact ==
  Answered("ComputeMaskedBits") /\ isURemPow2(root) =>
    \A d \in 0..(MaxDepth - 1) : \A M \in Masks(root.w) :
      LET LowBits == getOperand(root, 1).k - 1
          High == BAnd(BNot(root.w, LowBits), M)
          Low == BAnd(LowBits, M)
          X == ComputeMaskedBits(getOperand(root, 0), Low, 0, 0, d + 1)
      IN /\ Subset(High, res[d][M].z)
         /\ BAnd(res[d][M].z, Low) = BAnd(X.z, Low)
         /\ BAnd(res[d][M].o, Low) = BAnd(X.o, Low)

\* The PHI of a recurrence in the graph: incoming 0 is the start value R,
\* incoming 1 is the step LU = P op L or L op P, op a recurrence opcode.
isRecurrencePHI(P) ==
  /\ Opcode(P) = "PHI" /\ getNumOperands(P) = 2
  /\ LET LU == getOperand(P, 1)
     IN /\ isOperator(LU) /\ LU.k <= Len(g)
        /\ isRecurrenceOpcode(Opcode(LU))
        /\ P \in {getOperand(LU, 0), getOperand(LU, 1)}

StartOf(P) == getOperand(P, 0)
StepOf(P) ==
  LET LU == getOperand(P, 1)
  IN IF getOperand(LU, 0) = P THEN getOperand(LU, 1) ELSE getOperand(LU, 0)

\* tz: the number of known trailing zero bits of a value asked on its own.
KnownTrailingZeros(v) == countTrailingOnes(OnItsOwn(v).z)

\* C17: a two-predecessor recurrence PHI keeps alignment.  For
\* P = phi [R], [P op L] (or L op P) with op among add, sub, and, or, mul,
\* ComputeMaskedBits(P) with the all-ones mask at depth 0 reports at least
\* min(tz(R), tz(L)) low bits known-zero; for R = 0, L = 4, op = add both
\* the PHI and i1 = P + 4 get at least 2 known-zero low bits.
C17_RecurrenceAlignment ==
  Answered("ComputeMaskedBits") =>
    /\ isRecurrencePHI(root) =>
         countTrailingOnes(res[0][AllOnesValue(root.w)].z)
           >= Min(KnownTrailingZeros(StartOf(root)), KnownTrailingZeros(StepOf(root)))
    /\ \A p \in 1..Len(g) :
         LET P == Inst(BitWidth, p)
         IN /\ isRecurrencePHI(P)
            /\ StartOf(P) = ConstantInt(BitWidth, 0)
            /\ StepOf(P) = ConstantInt(BitWidth, 4)
            /\ Opcode(getOperand(P, 1)) = "Add"
            /\ root \in {P, getOperand(P, 1)}
            => countTrailingOnes(res[0][AllOnesValue(BitWidth)].z) >= 2

\* x | 1 and (x & 1) << 3 for an argument x, the constant on either side.
isOrWithOne(V) ==
  /\ Opcode(V) = "Or"
  /\ \E x \in {Argument(V.w, 0), Argument(V.w, 1)} :
       <<getOperand(V, 0), getOperand(V, 1)>>
          \in {<<x, ConstantInt(V.w, 1)>>, <<ConstantInt(V.w, 1), x>>}

isLowBitShifted(V) ==
  /\ Opcode(V) = "Shl" /\ ~hasNoUnsignedWrap(V)
  /\ getOperand(V, 1) = ConstantInt(V.w, 3)
  /\ isOperator(getOperand(V, 0))
  /\ LET Y == getOperand(V, 0)
     IN /\ Opcode(Y) = "And"
        /\ \E x \in {Argument(V.w, 0), Argument(V.w, 1)} :
             <<getOperand(Y, 0), getOperand(Y, 1)>>
                \in {<<x, ConstantInt(V.w, 1)>>, <<ConstantInt(V.w, 1), x>>}

\* C18: at depth 0, for a completely unknown x, isKnownNonZero(x | 1) is
\* true, an or being non-zero as soon as one operand is known non-zero, and
\* isKnownNonZero((x & 1) << 3) is false when the shift is not marked nuw.
C18_OrShlPatterns ==
  Answered("isKnownNonZero") =>
    /\ isOrWithOne(root) => res[0].b
    /\ Opcode(root) = "Or"
         /\ (\E i \in 0..1 : isKnownNonZero(getOperand(root, i), 1).b)
         => res[0].b
    /\ isLowBitShifted(root) => ~res[0].b

C18_Witness ==
  /\ Answered("isKnownNonZero")
  /\ isOrWithOne(root)
  /\ getOperand(root, 0) = Argument(BitWidth, 0)
  /\ res[0].b

\* A GEP with a struct index.
hasStructIndex(V) == Opcode(V) = "GetElementPtr" /\ isStructIndex(V, 2)

\* C19: missing target layout degrades to unknown and never fails.  With no
\* TargetData, ComputeSignBit on a pointer returns both flags false without
\* calling ComputeMaskedBits; ptrtoint, inttoptr and a GEP with a struct
\* index return KnownZero = KnownOne = 0; isKnownNonZero on a pointer for
\* which no pattern applies returns false; no assertion fails.
C19_NoTargetData ==
  /\ Answered("ComputeSignBit") /\ isPointerTy(root) =>
       \A d \in Depths :
          ~res[d].z /\ ~res[d].o /\ ~res[d].called /\ res[d].ok
  /\ Answered("ComputeMaskedBits")
       /\ (Opcode(root) \in {"PtrToInt", "IntToPtr"} \/ hasStructIndex(root)) =>
       \A d \in Depths : \A m \in Masks(MaskBitWidth(root)) :
          res[d][m].z = 0 /\ res[d][m].o = 0 /\ res[d][m].ok
  /\ Answered("isKnownNonZero") /\ isPointerTy(root) =>
       \A d \in Depths : ~res[d].b /\ res[d].ok

C19_Witness ==
  /\ Answered("ComputeSignBit")
  /\ isPointerTy(root)
  /\ hasStructIndex(root)
  /\ ~res[0].called

\* The dividend's sign bit as the SRem case asks for it.
DividendSign(V, d) == ComputeMaskedBits(getOperand(V, 0), getSignBit(V.w), 0, 0, d + 1)

\* The remainder is zero in no execution that defines it.
RemainderNonZero == ConcreteOf(root) # {} /\ 0 \notin ConcreteOf(root)

C20_KnownZeroPart ==
  Answered("ComputeMaskedBits") /\ Opcode(root) = "SRem" =>
    \A d \in 0..(MaxDepth - 1) :
      \A M \in {m \in Masks(root.w) : isNegative(root.w, m)} :
         isNegative(root.w, DividendSign(root, d).z) => isNegative(root.w, res[d][M].z)

C20_KnownOnePart ==
  Answered("ComputeMaskedBits") /\ Opcode(root) = "SRem" /\ RemainderNonZero =>
    \A d \in 0..(MaxDepth - 1) :
      \A M \in {m \in Masks(root.w) : isNegative(root.w, m)} :
         isNegative(root.w, DividendSign(root, d).o) => isNegative(root.w, res[d][M].o)

\* C20: for V = srem X, Y with the sign bit requested and depth < MaxDepth,
\* the sign bit of the result is reported known-zero when the sign bit of X is
\* known zero, and whenever the remainder is known not to be zero it is
\* reported equal to the sign bit of X, known-one when X is known negative;
\* for any divisor.
C20_SRemSignBit == C20_KnownZeroPart /\ C20_KnownOnePart

\* The SRem case of V before its final step: the bits found for a divisor
\* that is a power-of-two constant, nothing for another divisor.
isSRemPow2(V) ==
  isConstantInt(getOperand(V, 1)) /\ isPowerOf2(APAbs(V.w, getOperand(V, 1).k))

BeforeSignStep(V, Mask, d) ==
  LET RA == APAbs(V.w, getOperand(V, 1).k)
  IN IF isSRemPow2(V)
       THEN SRemPow2Case(V.w, Mask, RA,
              ComputeMaskedBits(getOperand(V, 0), BOr(RA - 1, getSignBit(V.w)), 0, 0, d + 1))
       ELSE Unknown

\* C21: the SRem sign step touches only the sign bit.  The final step of the
\* SRem case changes at most bit W-1 of KnownZero and leaves every other bit
\* of KnownZero and all of KnownOne unchanged; for a divisor that is not a
\* power-of-two constant no bit other than the sign bit is ever reported
\* known, whatever the dividend is.
C21_SignStepFrame ==
  Answered("ComputeMaskedBits") /\ Opcode(root) = "SRem" =>
    \A d \in 0..(MaxDepth - 1) : \A M \in Masks(root.w) \ {0} :
      LET k == BeforeSignStep(root, M, d)
          Others == BNot(root.w, getSignBit(root.w))
      IN /\ BAnd(res[d][M].z, Others) = BAnd(k.z, Others)
         /\ res[d][M].o = k.o
         /\ ~isSRemPow2(root) => BAnd(res[d][M].z, Others) = 0 /\ res[d][M].o = 0

(***************************************************************************)
(* Calls to ctlz, cttz and ctpop on integer types of every width up to     *)
(* MaxCountWidth: one call on an argument or on a constant.                *)
(***************************************************************************)
CountWidths == 1..MaxCountWidth

CountOperands(w) == {Argument(w, 0)} \cup {ConstantInt(w, c) : c \in 0..AllOnesValue(w)}

AddCountCall ==
  /\ g = << >>
  /\ \E w \in CountWidths : \E op \in CountOps : \E f \in BitsFlagSets(op) :
       \E a \in CountOperands(w) : AppendInstruction(Instruction(op, w, <<a>>, f))

NextBitCount == AddCountCall \/ Ask \/ QueryComputeMaskedBits

SpecBitCount == Init /\ [][NextBitCount]_vars

\* The defined results of the call V over the values of its operand.
OperandValues(v) == IF isConstantInt(v) THEN {v.k} ELSE 0..AllOnesValue(v.w)

DefinedResults(V) ==
  {EvalUnary(g[V.k], V.w, a) : a \in OperandValues(getOperand(V, 0))} \ {Poison}

\* The results the intrinsic can give by its definition: 0..W, or 0..W-1
\* for ctlz / cttz with the undefined-at-zero flag.
ResultRange(V) ==
  IF Opcode(V) \in {"ctlz", "cttz"} /\ isZeroUndef(V) THEN 0..(V.w - 1) ELSE 0..V.w

isCountCall(V) == isOperator(V) /\ Opcode(V) \in CountOps

C22_ResultsPart ==
  Answered("ComputeMaskedBits") /\ isCountCall(root) =>
    \A d \in 0..(MaxDepth - 1) : \A M \in Masks(root.w) :
      \A r \in DefinedResults(root) : BAnd(res[d][M].z, r) = 0

\* C22: bit-count intrinsic bound.  For a call to ctlz, cttz or ctpop on a
\* value of any width W, every bit that ComputeMaskedBits marks known-zero is
\* zero in every defined result of the intrinsic, the results ranging over
\* 0..W, or over 0..W-1 for ctlz / cttz with the undefined-at-zero flag.
C22_BitCountBound ==
  Answered("ComputeMaskedBits") /\ isCountCall(root) =>
    \A d \in 0..(MaxDepth - 1) : \A M \in Masks(root.w) :
      /\ res[d][M].o = 0
      /\ \A r \in ResultRange(root) : BAnd(res[d][M].z, r) = 0

(***************************************************************************)
(* ComputeMaskedBits called with bit sets that already hold something: the *)
(* value asked about is a leaf (a constant, an integer argument, a plain   *)
(* or byval pointer argument) or one instruction over leaves.              *)
(***************************************************************************)
EntryContents(w) == {0, getLowBitsSet(w, 1), getSignBit(w), AllOnesValue(w)}

ByValArguments == {Argument(0, k) : k \in 0..Len(ParamAlignments)}

ContentsLeaves ==
  {Argument(BitWidth, 0), ConstantInt(BitWidth, getSignBit(BitWidth) + 1)} \cup ByValArguments

AddArgumentUser ==
  /\ g = << >>
  /\ \E op \in BitsBinaryOps :
       \E a \in {Argument(BitWidth, 0), ConstantInt(BitWidth, getSignBit(BitWidth) + 1)} :
         \E b \in {Argument(BitWidth, 1)} \cup {ConstantInt(BitWidth, c) : c \in 1..BitWidth} :
           AppendInstruction(Instruction(op, BitWidth, <<a, b>>, {}))

AddByValCast ==
  /\ g = << >>
  /\ \E A \in ByValArguments : EmitPointer("BitCast", <<A>>)

AskContents ==
  /\ pc = "build"
  /\ root' \in IF g = << >> THEN ContentsLeaves ELSE {Inst(g[1].w, 1)}
  /\ pc' = "ready"
  /\ UNCHANGED <<g, fn, res, kind, depth, nest, path>>

QueryWithContents ==
  LET w == MaskBitWidth(root)
  IN Finish("ComputeMaskedBitsFrom",
            [d \in Depths |-> [m \in Masks(w) |->
               [c \in EntryContents(w) \X EntryContents(w) |->
                  ComputeMaskedBits(root, m, c[1], c[2], d)]]])

NextContents == AddArgumentUser \/ AddByValCast \/ AskContents \/ QueryWithContents

SpecContents == Init /\ [][NextContents]_vars

\* C23: the result is independent of the out-parameters' initial contents.
\* For every value V, mask and depth, the (KnownZero, KnownOne) pair returned
\* by ComputeMaskedBits is the same whatever KnownZero and KnownOne held on
\* entry; an argument that is not byval-with-alignment yields KnownZero =
\* KnownOne = 0, and a byval argument with alignment A yields KnownOne = 0
\* and KnownZero = Mask & low log2(A) bits.
C23_EntryIndependent ==
  Answered("ComputeMaskedBitsFrom") =>
    LET w == MaskBitWidth(root)
        A == getParamAlignment(root)
    IN \A d \in Depths : \A M \in Masks(w) :
         \A c \in EntryContents(w) \X EntryContents(w) :
           LET r == res[d][M][c]
           IN /\ r.z = res[d][M][<<0, 0>>].z
              /\ r.o = res[d][M][<<0, 0>>].o
              /\ isArgument(root) =>
                   /\ r.o = 0
                   /\ r.z = IF A > 0 THEN BAnd(M, getLowBitsSet(w, Log2_32(A))) ELSE 0

\* The same for every value that is not an argument.
C23_InstructionsPart ==
  Answered("ComputeMaskedBitsFrom") /\ ~isArgument(root) =>
    LET w == MaskBitWidth(root)
    IN \A d \in Depths : \A M \in Masks(w) :
         \A c \in EntryContents(w) \X EntryContents(w) :
           /\ res[d][M][c].z = res[d][M][<<0, 0>>].z
           /\ res[d][M][c].o = res[d][M][<<0, 0>>].o

isShlOfConstant(V) ==
  isOperator(V) /\ Opcode(V) = "Shl" /\ isConstantInt(getOperand(V, 1))

\* The leading bits of V that ComputeMaskedBits at depth d proves equal to a
\* known sign bit; 1 when the sign bit is not known.
KnownSignCopies(V, d) ==
  LET r == ComputeMaskedBits(V, AllOnesValue(V.w), 0, 0, d)
  IN IF isNegative(V.w, r.z) THEN countLeadingOnes(V.w, r.z)
     ELSE IF isNegative(V.w, r.o) THEN countLeadingOnes(V.w, r.o)
     ELSE 1

\* C24: ComputeNumSignBits on shl by a constant C.  When C is smaller than
\* both the width W and the operand's sign-bit count n, the result is n - C;
\* when the shift would remove all known sign bits (C >= n) or C >= W, the
\* result is 1.
C24_ShlSignBits ==
  Answered("ComputeNumSignBits") /\ isShlOfConstant(root) =>
    \A d \in 0..(MaxDepth - 1) :
      LET n == ComputeNumSignBits(getOperand(root, 0), d + 1)
          C == getOperand(root, 1).k
      IN IF C < root.w /\ C < n THEN res[d] = n - C ELSE res[d] = 1

\* C24 amended: when C >= n or C >= W the result is the count the generic
\* tail finds in the known bits of the shl itself, 1 when its sign bit is
\* not known.
C24_ShlSignBitsAmended ==
  Answered("ComputeNumSignBits") /\ isShlOfConstant(root) =>
    \A d \in 0..(MaxDepth - 1) :
      LET n == ComputeNumSignBits(getOperand(root, 0), d + 1)
          C == getOperand(root, 1).k
      IN IF C < root.w /\ C < n THEN res[d] = n - C
         ELSE res[d] = KnownSignCopies(root, d)

\* A shl that shifts every sign bit of its operand out and still has more
\* than one sign bit, and at the depth limit has 1.
C24_Witness ==
  /\ Answered("ComputeNumSignBits")
  /\ isShlOfConstant(root)
  /\ getOperand(root, 1).k < root.w
  /\ getOperand(root, 1).k >= ComputeNumSignBits(getOperand(root, 0), 1)
  /\ res[0] > 1
  /\ res[MaxDepth] = 1

(***************************************************************************)
(* GetStringLength on graphs of PHI, select and bitcast nodes over pointer *)
(* leaves.  A PHI may name any node of the graph, itself and later ones    *)
(* included; a select or a bitcast names leaves and earlier nodes.         *)
(***************************************************************************)
MaxNodes == 3

CycleLeaves == {GlobalVariable(4), Argument(0, 0)}
EarlierNodes == {Inst(0, j) : j \in 1..Len(g)}
AnyNodes == {Inst(0, j) : j \in 1..MaxNodes}

AddCyclePHI ==
  /\ Len(g) < MaxNodes
  /\ \E ops \in {<< >>} \cup {<<a>> : a \in AnyNodes \cup CycleLeaves}
                  \cup (AnyNodes \X (AnyNodes \cup CycleLeaves)) :
       EmitPointer("PHI", ops)

AddCycleSelect ==
  /\ Len(g) < MaxNodes
  /\ \E p \in EarlierNodes \X (EarlierNodes \cup CycleLeaves) :
       EmitPointer("Select", <<Cond>> \o p)

AddCycleBitCast ==
  /\ Len(g) < MaxNodes
  /\ \E a \in EarlierNodes : EmitPointer("BitCast", <<a>>)

AskNode ==
  /\ pc = "build"
  /\ g # << >>
  /\ WellFormed
  /\ root' \in EarlierNodes
  /\ pc' = "ready"
  /\ UNCHANGED <<g, fn, res, kind, depth, nest, path>>

QueryGetStringLengthWalk ==
  Finish("GetStringLengthWalk", GetStringLengthWalk(root, [ok |-> FALSE, Len |-> 0]))

NextCycles ==
  \/ AddCyclePHI
  \/ AddCycleSelect
  \/ AddCycleBitCast
  \/ AskNode
  \/ QueryGetStringLengthWalk

SpecCycles == Init /\ [][NextCycles]_vars

\* No node of the graph names a leaf: the only information is PHI cycles.
OnlyCycles ==
  \A i \in 1..Len(g) : \A j \in 1..Len(g[i].ops) :
     g[i].ops[j] = Cond \/ isOperator(g[i].ops[j])

NoDuplicates(s) == \A i \in 1..Len(s) : \A j \in 1..Len(s) : s[i] = s[j] => i = j

\* C25: GetStringLength on PHI cycles.  GetStringLength returns on every
\* graph of PHI, select and bitcast nodes, self-referential and mutually
\* referential PHI cycles included; within one top-level call the incoming
\* values of each PHI are walked at most once; the top-level result is never
\* the sentinel, and a pointer whose only information is a PHI cycle yields 1.
C25_PHICycles ==
  Answered("GetStringLengthWalk") =>
    /\ res.ok
    /\ NoDuplicates(res.walked)
    /\ \A i \in 1..Len(res.walked) : Opcode(Inst(0, res.walked[i])) = "PHI"
    /\ res.Len # AlreadySeen
    /\ res.Len \in {0, 1}
    /\ OnlyCycles => res.Len = 1

\* Two PHIs that name each other, asked about through a select that reaches
\* the first of them twice: each is walked once and the answer is 1.
C25_Witness ==
  /\ Answered("GetStringLengthWalk")
  /\ OnlyCycles
  /\ Opcode(root) = "Select"
  /\ getOperand(root, 1) = getOperand(root, 2)
  /\ Len(res.walked) = 2
  /\ \E i \in 1..Len(g) : \E j \in 1..Len(g) :
       /\ i < j
       /\ g[i].op = "PHI" /\ g[j].op = "PHI"
       /\ Inst(0, j) \in {g[i].ops[n] : n \in 1..Len(g[i].ops)}
       /\ Inst(0, i) \in {g[j].ops[n] : n \in 1..Len(g[j].ops)}
  /\ res.Len = 1

\* C26: GetStringLength reads only inside the array.  For every constant
\* start index S of the GEP and every array length N (S > N and S = N
\* included), the scan loop of GetStringLengthH reads array elements only at
\* indices i with 0 <= i < N and then returns: the call returns, and its
\* answer does not depend on what a read at or past N would find.
C26_ReadsInsideArray ==
  Answered("GetStringLength") =>
    \A B1 \in BeyondOutcomes :
      /\ res[B1].ok
      /\ \A B2 \in BeyondOutcomes : res[B1].Len = res[B2].Len

\* The same for the start indices S <= N.
C26_InsidePart ==
  Answered("GetStringLength") =>
    \/ \E i \in 1..Len(g) :
         /\ g[i].op = "GetElementPtr"
         /\ Len(g[i].ops) = 3
         /\ isGlobalVariable(g[i].ops[1])
         /\ isConstantInt(g[i].ops[3])
         /\ GlobalVariables[g[i].ops[1].k].Initializer.c = "ConstantArray"
         /\ g[i].ops[3].k > Len(GlobalVariables[g[i].ops[1].k].Initializer.elts)
    \/ \A B1 \in BeyondOutcomes :
         /\ res[B1].ok
         /\ \A B2 \in BeyondOutcomes : res[B1].Len = res[B2].Len

(***************************************************************************)
(* GetConstantStringInfo asked about a chain of bitcasts and GEPs over a   *)
(* global: every instruction takes the one before it, the first one a      *)
(* global.  A bitcast casts to a pointer to an array of i8 ("array"), to   *)
(* an array of wider elements ("wide") or to an i8; a GEP with two indices *)
(* takes a global or a bitcast to an array.                                *)
(***************************************************************************)
ArrayGlobals ==
  {GlobalVariable(n) : n \in {n \in 1..Len(GlobalVariables) :
                                GlobalVariables[n].Initializer.c # "ConstantInt"}}
AllGlobals == {GlobalVariable(n) : n \in 1..Len(GlobalVariables)}

LastPointer == Inst(0, Len(g))

IndexedPointers ==
  IF g = << >> THEN ArrayGlobals
  ELSE IF g[Len(g)].op = "BitCast" /\ g[Len(g)].f # {} THEN {LastPointer}
  ELSE {}

AddInfoGEP ==
  /\ Len(g) < MaxNodes
  /\ \/ \E P \in IndexedPointers : \E S \in 0..MaxIndex :
          EmitPointer("GetElementPtr", <<P, ConstantInt(BitWidth, 0), ConstantInt(BitWidth, S)>>)
     \/ \E P \in IndexedPointers : \E Idx \in {ConstantInt(BitWidth, 1), Argument(BitWidth, 0)} :
          EmitPointer("GetElementPtr", <<P, Idx, ConstantInt(BitWidth, 0)>>)
     \/ \E P \in IndexedPointers :
          EmitPointer("GetElementPtr", <<P, ConstantInt(BitWidth, 0), Argument(BitWidth, 0)>>)
     \/ g # << >> /\ EmitPointer("GetElementPtr", <<LastPointer, ConstantInt(BitWidth, 1)>>)

AddInfoBitCast ==
  /\ Len(g) < MaxNodes
  /\ \E P \in IF g = << >> THEN AllGlobals ELSE {LastPointer} :
       \E f \in {{}, {"array"}, {"wide"}} :
         /\ pc = "build"
         /\ g' = Append(g, Instruction("BitCast", 0, <<P>>, f))
         /\ UNCHANGED <<root, pc, fn, res, kind, depth, nest, path>>

AskInfo ==
  /\ pc = "build"
  /\ root' \in IF g = << >> THEN AllGlobals ELSE {LastPointer}
  /\ pc' = "ready"
  /\ UNCHANGED <<g, fn, res, kind, depth, nest, path>>

QueryGetConstantStringInfo ==
  Finish("GetConstantStringInfo",
         [StopAtNul \in BOOLEAN |-> GetConstantStringInfo(root, << >>, 0, StopAtNul)])

NextStringInfo == AddInfoGEP \/ AddInfoBitCast \/ AskInfo \/ QueryGetConstantStringInfo

SpecStringInfo == Init /\ [][NextStringInfo]_vars

\* The global the chain starts from, and the sum of the second indices.
ChainBase == IF g = << >> THEN root ELSE g[1].ops[1]

isInfoGEP(i) == g[i].op = "GetElementPtr"

Interpreted(i) ==
  isInfoGEP(i) =>
    /\ Len(g[i].ops) = 3
    /\ g[i].ops[2] = ConstantInt(BitWidth, 0)
    /\ isConstantInt(g[i].ops[3])

IndexesArrayOfI8(i) == isInfoGEP(i) => isPointerToArrayOfI8(g[i].ops[1])

TotalOffset ==
  LET Sum[i \in 0..Len(g)] ==
        IF i = 0 THEN 0
        ELSE Sum[i - 1] + (IF isInfoGEP(i) /\ Interpreted(i) THEN g[i].ops[3].k ELSE 0)
  IN Sum[Len(g)]

\* The base is a constant global with a definitive initializer of i8
\* elements, all of them constant integers.
BaseElements == GlobalVariables[ChainBase.k].Initializer.elts

isStringBase ==
  LET GV == GlobalVariables[ChainBase.k]
  IN /\ GV.isConstant /\ hasDefinitiveInitializer(GV)
     /\ GV.Initializer.c \in {"ConstantArray", "ConstantAggregateZero"}
     /\ GV.Initializer.bits = 8
     /\ \A i \in 1..Len(GV.Initializer.elts) : isConstantInt(GV.Initializer.elts[i])

\* Elements O..N-1, or those before the first zero element from O on.
ElementsFrom(O, StopAtNul) ==
  LET N == Len(BaseElements)
      zeros == {i \in O..(N - 1) : BaseElements[i + 1].k = 0}
      end == IF StopAtNul /\ zeros # {}
               THEN CHOOSE i \in zeros : \A j \in zeros : i <= j
               ELSE N
  IN [j \in 1..(end - O) |-> BaseElements[O + j].k]

C27_SuccessPart ==
  (/\ Answered("GetConstantStringInfo")
   /\ \A i \in 1..Len(g) : Interpreted(i) /\ IndexesArrayOfI8(i)
   /\ isStringBase
   /\ TotalOffset <= Len(BaseElements))
    => \A StopAtNul \in BOOLEAN :
         /\ res[StopAtNul].ret
         /\ res[StopAtNul].Str = ElementsFrom(TotalOffset, StopAtNul)

C27_BeyondPart ==
  (/\ Answered("GetConstantStringInfo")
   /\ \A i \in 1..Len(g) : Interpreted(i) /\ IndexesArrayOfI8(i)
   /\ isStringBase
   /\ TotalOffset > Len(BaseElements))
    => \A StopAtNul \in BOOLEAN : ~res[StopAtNul].ret

C27_RejectPart ==
  (/\ Answered("GetConstantStringInfo")
   /\ \/ \E i \in 1..Len(g) : ~Interpreted(i) \/ ~IndexesArrayOfI8(i)
      \/ /\ GlobalVariables[ChainBase.k].Initializer.c = "ConstantArray"
         /\ GlobalVariables[ChainBase.k].Initializer.bits # 8)
    => \A StopAtNul \in BOOLEAN : ~res[StopAtNul].ret

\* C27: GetConstantStringInfo extraction.  For a pointer reached through
\* bitcasts and 3-operand GEPs (first index 0, constant second index, offsets
\* summed) into a constant global with a definitive initializer of N i8
\* elements, at total offset O <= N, the call succeeds and the returned
\* string is exactly the elements O..N-1 when StopAtNul is false, and the
\* elements from O up to the first zero element when StopAtNul is true, for
\* every initializer including the all-zero one; it returns false when
\* O > N, when an index is not constant or the first index is not 0, or when
\* the element type is not i8.
C27_StringInfo == C27_SuccessPart /\ C27_BeyondPart /\ C27_RejectPart

(***************************************************************************)
(* GetPointerBaseWithConstantOffset asked about a chain of GEPs, bitcasts  *)
(* and inttoptr over a global or an argument, for a pointer size smaller   *)
(* than Offset and for one as wide as Offset.                              *)
(***************************************************************************)
PointerSizes == {BitWidth, OffsetBits}

InitialOffsets ==
  {0, 1, 0 - 1, Pow2(BitWidth - 1), Pow2(OffsetBits - 1) - 1, 0 - Pow2(OffsetBits - 1)}

BasePointers == IF g = << >> THEN {GlobalVariable(1), Argument(0, 0)} ELSE {LastPointer}

FirstIndices ==
  {ConstantInt(BitWidth, 0), ConstantInt(BitWidth, AllOnesValue(BitWidth)), Argument(BitWidth, 0)}
ArrayIndices ==
  {ConstantInt(BitWidth, c) : c \in {0, getSignBit(BitWidth) - 1, getSignBit(BitWidth)}}
FieldIndices == {ConstantInt(BitWidth, n - 1) : n \in 1..Len(StructLayout)}

AppendPointer(op, ops, f) ==
  /\ pc = "build"
  /\ Len(g) < MaxNodes
  /\ g' = Append(g, Instruction(op, 0, ops, f))
  /\ UNCHANGED <<root, pc, fn, res, kind, depth, nest, path>>

AddBaseGEP ==
  \E P \in BasePointers : \E I1 \in FirstIndices :
    \/ \E f \in {{}, {"wide"}} :
         \/ AppendPointer("GetElementPtr", <<P, I1>>, f)
         \/ \E I2 \in ArrayIndices : AppendPointer("GetElementPtr", <<P, I1, I2>>, f)
    \/ \E I2 \in FieldIndices : AppendPointer("GetElementPtr", <<P, I1, I2>>, {"struct"})

AddBaseCast ==
  \/ \E P \in BasePointers : \E f \in {{}, {"vector"}} : AppendPointer("BitCast", <<P>>, f)
  \/ AppendPointer("IntToPtr", <<Argument(BitWidth, 0)>>, {})

AskBase ==
  /\ pc = "build"
  /\ root' \in BasePointers
  /\ pc' = "ready"
  /\ UNCHANGED <<g, fn, res, kind, depth, nest, path>>

QueryGetPointerBase ==
  Finish("GetPointerBaseWithConstantOffset",
         [PtrSize \in PointerSizes |-> [Offset \in InitialOffsets |->
            GetPointerBaseWithConstantOffset(root, Offset, PtrSize)]])

NextBase == AddBaseGEP \/ AddBaseCast \/ AskBase \/ QueryGetPointerBase

SpecBase == Init /\ [][NextBase]_vars

\* A node the walk looks through.
isPeeled(V) ==
  /\ isOperator(V)
  /\ ~isVectorTy(V)
  /\ \/ Opcode(V) = "BitCast"
     \/ Opcode(V) = "GetElementPtr" /\ hasAllConstantIndices(V)

\* The nodes of the chain below the root that the walk looks through: those
\* above the last node it cannot interpret.
LastKept ==
  LET kept == {i \in 1..Len(g) : ~isPeeled(Inst(0, i))}
  IN IF kept = {} THEN 0 ELSE CHOOSE i \in kept : \A j \in kept : j <= i

PeeledGEPs == {i \in (LastKept + 1)..Len(g) : g[i].op = "GetElementPtr"}

\* Struct field offsets and index * element size of the GEP i.
GEPOffset(i) ==
  LET V == Inst(0, i)
      idx(n) == IF n < getNumOperands(V) THEN IndexOffset(V, n) ELSE 0
  IN idx(1) + idx(2)

SumOfPeeled ==
  LET Sum[i \in 0..Len(g)] ==
        IF i = 0 THEN 0 ELSE Sum[i - 1] + (IF i \in PeeledGEPs THEN GEPOffset(i) ELSE 0)
  IN Sum[Len(g)]

SignExtendFrom(P, x) == Signed(P, x % Pow2(P))

\* C28: GetPointerBaseWithConstantOffset.  The returned base is never itself
\* a non-vector bitcast operator or a GEP operator with all-constant indices;
\* when at least one GEP was peeled, the final Offset equals the
\* sign-extension from the pointer width P to the width of Offset of the
\* initial Offset plus the sum over all peeled GEPs of struct field offsets
\* and index * element size; Offset is left unchanged when no GEP was peeled.
C28_BaseAndOffset ==
  Answered("GetPointerBaseWithConstantOffset") =>
    \A P \in PointerSizes : \A Offset \in InitialOffsets :
      LET r == res[P][Offset]
      IN /\ ~isPeeled(r.Base)
         /\ r.Base = IF g = << >> THEN root
                     ELSE IF LastKept = 0 THEN g[1].ops[1]
                     ELSE Inst(0, LastKept)
         /\ r.Offset = IF PeeledGEPs = {} THEN Offset
                       ELSE SignExtendFrom(P, Offset + SumOfPeeled)

\* Two GEPs peeled through a bitcast down to a global, the sum of the index
\* offsets beyond the pointer width, the answer negative.
C28_Witness ==
  /\ Answered("GetPointerBaseWithConstantOffset")
  /\ Len(g) = MaxNodes
  /\ LastKept = 0
  /\ Cardinality(PeeledGEPs) = 2
  /\ SumOfPeeled >= Pow2(BitWidth)
  /\ res[BitWidth][1].Base = GlobalVariable(1)
  /\ res[BitWidth][1].Offset < 0
  /\ res[OffsetBits][1].Offset # res[BitWidth][1].Offset

(***************************************************************************)
(* FindInsertedValue asked about chains of insertvalue and extractvalue    *)
(* over the nested struct { i8, { i8, { i8, i8 } } } and its parts: every  *)
(* instruction takes the one before it, as its aggregate or as the value   *)
(* it inserts.                                                             *)
(***************************************************************************)
PairTy == <<ScalarTy, ScalarTy>>
InnerTy == <<ScalarTy, PairTy>>
OuterTy == <<ScalarTy, InnerTy>>
StructTypes == {PairTy, InnerTy, OuterTy}

IndexPaths(Ty) ==
  {p \in UNION {[1..n -> 0..1] : n \in 0..Len(OuterTy) + 1} : isValidIndices(Ty, p)}

ValueLeaves(Ty) ==
  IF ~isStructTy(Ty) THEN {Argument(Ty, 0), ConstantInt(Ty, 1)}
  ELSE {UndefValue(Ty), Argument(Ty, 1)}
         \cup (IF Ty = PairTy
                 THEN {getNullValue(Ty)}
                        \cup {ConstantStruct(Ty, n) : n \in 1..Len(ConstantStructs)}
                 ELSE {})

LastValue == Inst(g[Len(g)].w, Len(g))
ValuesOf(Ty) ==
  ValueLeaves(Ty) \cup (IF g # << >> /\ g[Len(g)].w = Ty THEN {LastValue} ELSE {})
TakesLast(ops) ==
  IF g = << >> THEN TRUE ELSE \E j \in 1..Len(ops) : SameValue(ops[j], LastValue)

AppendAggregate(op, Ty, ops, Idx) ==
  /\ pc = "build"
  /\ Len(g) < MaxNodes
  /\ TakesLast(ops)
  /\ g' = Append(g, Instruction(op, Ty, ops, Idx))
  /\ UNCHANGED <<root, pc, fn, res, kind, depth, nest, path>>

AddInsertValue ==
  \E Ty \in StructTypes : \E Agg \in ValuesOf(Ty) : \E Idx \in IndexPaths(Ty) \ {<< >>} :
    \E Val \in ValuesOf(getIndexedType(Ty, Idx)) :
      AppendAggregate("InsertValue", Ty, <<Agg, Val>>, Idx)

AddExtractValue ==
  \E Ty \in StructTypes : \E Agg \in ValuesOf(Ty) : \E Idx \in IndexPaths(Ty) \ {<< >>} :
    AppendAggregate("ExtractValue", getIndexedType(Ty, Idx), <<Agg>>, Idx)

AskAggregate ==
  /\ pc = "build"
  /\ root' \in IF g = << >> THEN UNION {ValueLeaves(Ty) : Ty \in StructTypes}
                ELSE {LastValue}
  /\ isStructTy(root'.w)
  /\ pc' = "ready"
  /\ UNCHANGED <<g, fn, res, kind, depth, nest, path>>

QueryFindInsertedValue ==
  Finish("FindInsertedValue",
         [idx_range \in IndexPaths(root.w) |-> FindInsertedValue(root, idx_range, FALSE, NoChange)])

QueryFindInsertedValueBefore ==
  Finish("FindInsertedValueBefore",
         [idx_range \in IndexPaths(root.w) |-> FindInsertedValue(root, idx_range, TRUE, NoChange)])

NextAggregates ==
  \/ AddInsertValue
  \/ AddExtractValue
  \/ AskAggregate
  \/ QueryFindInsertedValue
  \/ QueryFindInsertedValueBefore

SpecAggregates == Init /\ [][NextAggregates]_vars

\* C29: FindInsertedValue without an insertion point.  Called with
\* InsertBefore null on an aggregate built from undef, zero and constant
\* aggregates and chains of insertvalue / extractvalue, and a valid index
\* path, it creates and erases no instruction; a non-null value it returns is
\* the element an extractvalue of V at the path would yield; an empty path
\* returns V itself.
C29_FindInsertedValue ==
  Answered("FindInsertedValue") =>
    \A idx_range \in IndexPaths(root.w) :
      LET r == res[idx_range]
      IN /\ r.M = NoChange
         /\ idx_range = << >> => SameValue(r.ret, root)
         /\ ~isNull(r.ret) =>
              /\ r.ret.w = getIndexedType(root.w, idx_range)
              /\ \A q \in IndexPaths(r.ret.w) :
                   ~isStructTy(getIndexedType(r.ret.w, q)) =>
                     ElementAt(r.ret, q) = ElementAt(root, idx_range \o q)

\* An extractvalue of an insertvalue over an insertvalue: the later insert
\* is at another path and is skipped, the earlier one holds the argument
\* asked for.
C29_Witness ==
  /\ Answered("FindInsertedValue")
  /\ Len(g) = MaxNodes
  /\ g[1].op = "InsertValue" /\ g[2].op = "InsertValue" /\ g[MaxNodes].op = "ExtractValue"
  /\ SameValue(g[2].ops[1], Inst(g[1].w, 1))
  /\ \E idx_range \in IndexPaths(root.w) \ {<< >>} :
       /\ Differs(g[2].f, g[MaxNodes].f \o idx_range)
       /\ SameValue(res[idx_range].ret, Argument(ScalarTy, 0))
       /\ SameValue(g[1].ops[2], Argument(ScalarTy, 0))

BuiltAt(idx_range) == res[idx_range].M.built

AllErased(M) == \A n \in 1..Len(M.created) : Len(g) + n \in M.erased

C30_NoDebrisPart ==
  Answered("FindInsertedValueBefore") =>
    \A idx_range \in IndexPaths(root.w) :
      LET r == res[idx_range]
      IN BuiltAt(idx_range) /\ r.M.ok /\ isNull(r.ret) => AllErased(r.M)

\* C30: BuildSubAggregate leaves no debris and never builds on a null
\* aggregate.  If BuildSubAggregate returns null then every insertvalue it
\* created has been erased, and every insertvalue it creates has a non-null
\* aggregate operand, including when the per-element search of a nested
\* struct fails and the whole nested struct is then found as a single value.
C30_BuildSubAggregate ==
  Answered("FindInsertedValueBefore") =>
    \A idx_range \in IndexPaths(root.w) :
      LET r == res[idx_range]
      IN BuiltAt(idx_range) =>
           /\ r.M.ok
           /\ isNull(r.ret) => AllErased(r.M)

=============================================================================
